---- MODULE Spec2Model ----
(***************************************************************************)
(* State-machine model of the script executor: the orchestrating          *)
(* ExecutorCore (src/executor/core.py), the thread-guarded Sandbox        *)
(* (src/executor/sandbox.py), the lighter executor under                  *)
(* src/cia-roblox-executor, the Lua environments each of them builds, and *)
(* the ExecutionLogger (src/executor/logger.py).                          *)
(*                                                                         *)
(* Time is counted in seconds.  A step of Python or Lua code takes no     *)
(* time; time passes (Tick) only while every thread is idle, waits in a   *)
(* timed join, or runs a script statement that takes time, and it passes  *)
(* up to the moment the next timer runs out.                              *)
(***************************************************************************)
EXTENDS Integers, Sequences, FiniteSets, TLC

\* ------------------------------------------------------------------ bounds

\* calls of an execute operation started on one object
MaxCalls == 2

\* ------------------------------------------------------- program constants

\* ExecutorCore.__init__: self.execution_timeout = 30
DefaultExecutionTimeout == 30

\* ------------------------------------------------------------------ scripts
(* A script is a sequence of statements.  Each statement stands for one    *)
(* line of Lua, given by StmtText as the sequence of its lexemes; where a  *)
(* pattern list searches for overlapping substrings ("os." and             *)
(* "os.execute"), each substring searched for is written out as a lexeme:  *)
(*   print     print("hi")                                                 *)
(*   setg      G = 1                        (creates a global)             *)
(*   error     error("boom")                (raises)                       *)
(*   spin      while 1 do end               (never terminates)             *)
(*   whiletrue while true do end            (never terminates)             *)
(*   delay     for i = 1, N do end          (computes for one second)      *)
(*   work      for i = 1, M do end          (computes for LongWork seconds)*)
(*   osexec    os.execute("rm -rf /")                                      *)
(*   Debug     Debug.traceback()            (mixed case)                   *)
(*   getfenv   local e = getfenv(0)                                        *)
(*   blob      local s = "..."              (a literal of over 1 MiB)      *)
(***************************************************************************)
\* seconds the statement "work" computes for
LongWork == 40

StmtText ==
  [ print     |-> <<"print", "(", "'hi'", ")">>,
    setg      |-> <<"G", "=", "1">>,
    error     |-> <<"error", "(", "'boom'", ")">>,
    spin      |-> <<"while", "1", "do", "end">>,
    whiletrue |-> <<"while", "while true do", "end">>,
    delay     |-> <<"for", "i", "=", "1", ",", "N", "do", "end">>,
    work      |-> <<"for", "i", "=", "1", ",", "M", "do", "end">>,
    osexec    |-> <<"os.", "os.execute", "(", "'rm -rf /'", ")">>,
    Debug     |-> <<"Debug", "Debug.", "traceback", "(", ")">>,
    getfenv   |-> <<"local", "e", "=", "getfenv", "getfenv(", "0", ")">>,
    blob      |-> <<"local", "s", "=", "'...'">>,
    \* statements produced by the rewriter
    safe_defs     |-> <<"local", "function", "_safe_getfenv", "(", ")", "end">>,
    safe_getfenv  |-> <<"local", "e", "=", "_safe_getfenv", "(", "0", ")">>,
    blocked       |-> <<"-- BLOCKED: I/O operation not allowed in sandbox">>,
    wrapper       |-> <<"-- CIA Roblox Executor Safety Wrapper", "pcall">> ]

Stmts == DOMAIN StmtText

\* the scripts callers submit
Scripts ==
  { <<"print">>, <<"setg">>, <<"error">>, <<"spin">>, <<"delay", "setg">>,
    <<"osexec">>, <<"Debug">>, <<"getfenv">> }

RECURSIVE ScriptText(_)
\* the text of a script: the lexemes of its statements, in order
ScriptText(s) ==
  IF s = <<>> THEN <<>> ELSE StmtText[Head(s)] \o ScriptText(Tail(s))

\* str.lower() on a lexeme
Lower(w) ==
  CASE w = "Debug"  -> "debug"
    [] w = "Debug." -> "debug."
    [] OTHER        -> w

\* "pattern in text": some lexeme of the text is the pattern
Contains(text, pattern) == \E i \in 1..Len(text) : text[i] = pattern

\* text.lower()
LowerText(text) == [i \in 1..Len(text) |-> Lower(text[i])]

\* text.count(word)
Count(text, word) == Cardinality({i \in 1..Len(text) : text[i] = word})

\* ------------------------------------------------------------- the harness

VARIABLES
  sut,        \* the object the callers drive: "core", "sandbox", "lite", "env", "log"
  callers,    \* the caller threads in use
  ncalls      \* calls started so far (bounded by MaxCalls)

\* ------------------------------------------- ExecutorCore (executor/core.py)

VARIABLES
  lua_runtime,        \* self.lua_runtime: "ready" or "none"
  is_running,         \* self.is_running
  sandbox_mode,       \* self.sandbox_mode
  bypass_mode,        \* self.bypass_mode
  execution_timeout,  \* self.execution_timeout
  execution_stats,    \* self.execution_stats
  coreGlobals,        \* globals scripts created in self.lua_runtime
  cpc,                \* per caller: where its execute_script call stands
  cscript,            \* per caller: script_content of the call
  ctrace,             \* per caller: what the call did so far, in order
  cerr,               \* per caller: the exception travelling to the handler
  cresult,            \* per caller: how the last call ended
  cworker,            \* per caller: the thread of _execute_with_timeout
  cjoin,              \* per caller: seconds left of thread.join(timeout)
  climit,             \* per caller: the timeout that join was called with
  cwait,              \* per caller: seconds the call has waited in the join
  cseen,              \* per caller: script-made globals its run started with
  cabandoned          \* timed-out threads still running

coreVars ==
  << lua_runtime, is_running, sandbox_mode, bypass_mode, execution_timeout,
     execution_stats, coreGlobals, cpc, cscript, ctrace, cerr, cresult,
     cworker, cjoin, climit, cwait, cseen, cabandoned >>

AllCallers == {1, 2}

\* values set_execution_timeout is called with
TimeoutChoices == {1, DefaultExecutionTimeout}

NoWorker == [st |-> "none", pos |-> 0, left |-> 0, rt |-> "-"]

\* an entry of a call's trace
Ev(e) == [ev |-> e, msg |-> "-"]
EvMsg(e, m) == [ev |-> e, msg |-> m]

\* ExecutorCore.__init__
CoreInit ==
  /\ lua_runtime = "ready"
  /\ is_running = FALSE
  /\ sandbox_mode = TRUE
  /\ bypass_mode = TRUE
  /\ execution_stats = [total_executions |-> 0, successful_executions |-> 0,
                        failed_executions |-> 0]
  /\ coreGlobals = {}
  /\ cpc = [t \in AllCallers |-> "idle"]
  /\ cscript = [t \in AllCallers |-> <<>>]
  /\ ctrace = [t \in AllCallers |-> <<>>]
  /\ cerr = [t \in AllCallers |-> "-"]
  /\ cresult = [t \in AllCallers |-> "none"]
  /\ cworker = [t \in AllCallers |-> NoWorker]
  /\ cjoin = [t \in AllCallers |-> 0]
  /\ climit = [t \in AllCallers |-> 0]
  /\ cwait = [t \in AllCallers |-> 0]
  /\ cseen = [t \in AllCallers |-> {}]
  /\ cabandoned = {}

\* ExecutorCore._validate_script: the dangerous patterns
dangerous_patterns ==
  << "os.execute", "io.popen", "loadstring", "dofile", "loadfile", "require",
     "package", "debug", "collectgarbage", "coroutine", "jit" >>

\* ExecutorCore._validate_script: the result
CoreValidateScript(script) ==
  LET script_lower == LowerText(ScriptText(script))
  IN  ~ \E k \in 1..Len(dangerous_patterns) :
          Contains(script_lower, dangerous_patterns[k])

\* ExecutorCore._validate_script: what it logs
CoreValidateLog(script) ==
  IF ~CoreValidateScript(script)
    THEN << Ev("log_error_pattern") >>
    ELSE IF Count(ScriptText(script), "while") > 5
            \/ Count(ScriptText(script), "for") > 10
           THEN << Ev("log_warning_loops") >>
           ELSE << >>

\* AntiCheatBypass.__init__: self.bypass_patterns, the literal ones
bypass_patterns ==
  { "getfenv", "setfenv", "loadstring", "dofile", "loadfile", "require",
    "pcall", "xpcall", "collectgarbage", "gcinfo", "getmetatable",
    "setmetatable", "io.", "os.", "file.", "fs." }

\* AntiCheatBypass._detect_patterns: the statements with a match
\* (re.findall with re.IGNORECASE)
DetectPatterns(script) ==
  {i \in 1..Len(script) :
     \E p \in bypass_patterns : Contains(LowerText(StmtText[script[i]]), p)}

\* AntiCheatBypass._bypass_vm_detection and _bypass_io_detection: what a
\* statement with a match becomes
BypassReplacement(stmt) ==
  CASE stmt = "getfenv" -> "safe_getfenv"
    [] stmt = "osexec"  -> "blocked"
    [] OTHER            -> stmt

\* AntiCheatBypass.apply_bypass: stand-ins for the reflection calls, their
\* definitions in front, the whole in the safety wrapper
ApplyBypass(script) ==
  IF DetectPatterns(script) = {}
    THEN script
    ELSE << "wrapper", "safe_defs" >> \o
         [i \in 1..Len(script) |->
            IF i \in DetectPatterns(script)
              THEN BypassReplacement(script[i]) ELSE script[i]]

\* ------------------------------------------------------ Lua environments
(* The global table a script finds.  A name is bound to "host" (the value  *)
(* the Lua standard library gives it), "nil" (absent) or "standin" (a      *)
(* Python object put there by the executor).  Which names the host library *)
(* defines depends on the Lua the binding was built with: luaVersion.      *)

VARIABLES
  luaVersion,   \* "5.1" (Lua 5.1, LuaJIT) or "5.4"
  envBuilder,   \* the function building the environment
  envStep,      \* assignments it has made so far
  env,          \* the global table so far
  envHanded     \* the script has started in it

envVars == << envBuilder, envStep, env, envHanded >>

LuaVersions == {"5.1", "5.4"}

\* globals only Lua 5.1 and LuaJIT define
Lua51Only == {"loadstring", "getfenv", "setfenv", "unpack"}

\* globals the host library defines in every version
HostNames ==
  { "os", "io", "require", "dofile", "debug", "load", "loadfile", "package",
    "collectgarbage", "getmetatable", "setmetatable", "rawget", "rawset",
    "rawequal", "print", "tonumber", "tostring", "type", "pairs", "ipairs",
    "next", "select", "table", "string", "math", "coroutine", "pcall", "error" }

\* names the executors add
AddedNames ==
  { "game", "workspace", "script", "wait", "spawn", "Instance", "Vector3",
    "CFrame", "Color3", "TweenInfo" }

GlobalNames == HostNames \cup Lua51Only \cup AddedNames

\* LuaRuntime(...): the globals of a new runtime
HostGlobals(version) ==
  [n \in GlobalNames |->
     IF n \in HostNames \/ (n \in Lua51Only /\ version = "5.1")
       THEN "host" ELSE "nil"]

SetOp(n) == [op |-> "set", name |-> n]
DelOp(n) == [op |-> "del", name |-> n]
NilOp(n) == [op |-> "nil", name |-> n]
KeepOp(n) == [op |-> "keep", name |-> n]

\* one assignment: globals[n] = <Python object>, del globals[n] if present,
\* globals[n] = None, globals[n] = globals[n]
ApplyOp(e, o) ==
  CASE o.op = "set"  -> [e EXCEPT ![o.name] = "standin"]
    [] o.op = "del"  -> [e EXCEPT ![o.name] = "nil"]
    [] o.op = "nil"  -> [e EXCEPT ![o.name] = "nil"]
    [] o.op = "keep" -> e

RECURSIVE ApplyOps(_, _, _)
\* the first n assignments of ops, in order
ApplyOps(e, ops, n) ==
  IF n = 0 THEN e ELSE ApplyOp(ApplyOps(e, ops, n - 1), ops[n])

\* Sandbox._setup_secure_environment with _setup_roblox_environment
SetupSecureEnvironmentOps ==
  << SetOp("print"), SetOp("tonumber"), SetOp("tostring"), SetOp("type"),
     SetOp("pairs"), SetOp("ipairs"), SetOp("next"), SetOp("select"),
     SetOp("table"), SetOp("string"), SetOp("math"), SetOp("coroutine"),
     SetOp("game"), SetOp("workspace"), SetOp("script"), SetOp("wait"),
     SetOp("spawn"), SetOp("Instance"), SetOp("Vector3"), SetOp("CFrame"),
     SetOp("Color3"), SetOp("TweenInfo"),
     DelOp("os"), DelOp("io"), DelOp("debug"), DelOp("load"),
     DelOp("loadfile"), DelOp("dofile"), DelOp("require"), DelOp("package"),
     DelOp("collectgarbage"), DelOp("getmetatable"), DelOp("setmetatable"),
     DelOp("rawget"), DelOp("rawset"), DelOp("rawequal") >>

\* sandbox_worker.run_lua_code, lines 14-24
RunLuaCodeOps ==
  << NilOp("os"), NilOp("io"), NilOp("package"), NilOp("dofile"),
     NilOp("loadfile"), NilOp("require"), NilOp("debug"), SetOp("print") >>

\* cia-roblox-executor create_sandbox
CreateSandboxOps ==
  << NilOp("os"), NilOp("io"), NilOp("debug"), NilOp("package"),
     NilOp("require"), NilOp("load"), NilOp("loadstring"), NilOp("dofile"),
     NilOp("loadfile"), NilOp("setfenv"), NilOp("getfenv"),
     NilOp("collectgarbage"), NilOp("coroutine") >>

\* ExecutorCore._setup_restricted_globals: os becomes a dict of time, date
\* and clock; the other names are bound to the value they had
SetupRestrictedGlobalsOps ==
  << SetOp("print"), KeepOp("tonumber"), KeepOp("tostring"), KeepOp("type"),
     KeepOp("pairs"), KeepOp("ipairs"), KeepOp("next"), KeepOp("table"),
     KeepOp("string"), KeepOp("math"), SetOp("os") >>

EnvBuilders ==
  { "_setup_secure_environment", "run_lua_code", "create_sandbox",
    "_setup_restricted_globals" }

BuilderOps(b) ==
  CASE b = "_setup_secure_environment" -> SetupSecureEnvironmentOps
    [] b = "run_lua_code"              -> RunLuaCodeOps
    [] b = "create_sandbox"            -> CreateSandboxOps
    [] b = "_setup_restricted_globals" -> SetupRestrictedGlobalsOps

\* the environment a builder leaves
BuiltEnv(b, version) ==
  ApplyOps(HostGlobals(version), BuilderOps(b), Len(BuilderOps(b)))

EnvIdle ==
  /\ envBuilder = "-"
  /\ envStep = 0
  /\ env = [n \in GlobalNames |-> "nil"]
  /\ envHanded = FALSE

\* LuaRuntime(...) is created and a builder entered
EnvInit ==
  /\ envBuilder \in EnvBuilders
  /\ envStep = 0
  /\ env = HostGlobals(luaVersion)
  /\ envHanded = FALSE

\* the builder makes its next assignment
EnvAssign ==
  /\ ~envHanded
  /\ envStep < Len(BuilderOps(envBuilder))
  /\ envStep' = envStep + 1
  /\ env' = ApplyOp(env, BuilderOps(envBuilder)[envStep + 1])
  /\ UNCHANGED << envBuilder, envHanded, luaVersion >>

\* the builder has returned and the script starts
EnvHandOver ==
  /\ ~envHanded
  /\ envStep = Len(BuilderOps(envBuilder))
  /\ envHanded' = TRUE
  /\ UNCHANGED << envBuilder, envStep, env, luaVersion >>

\* the names a script must not reach the host library through
ContainedNames == {"os", "io", "require", "loadstring", "dofile", "debug"}

\* --------------------------------------------------- a thread running Lua
(* A worker thread is [st, script, pos, left, rt]: st is "running",        *)
(* "finished" or "raised"; pos the statement it is at; left the seconds    *)
(* is inside a statement that takes a second; rt the runtime it runs in.   *)

StartWorker(script, rt) ==
  [st |-> "running", script |-> script, pos |-> 1, left |-> 0, rt |-> rt]

\* the statement a worker is at ("end" past the last one)
WStmt(w) == IF w.pos > Len(w.script) THEN "end" ELSE w.script[w.pos]

\* the worker can take a step now
WCanStep(w) ==
  /\ w.st = "running"
  /\ w.left = 0
  /\ WStmt(w) \notin {"spin", "whiletrue"}

\* SandboxManager.setup_environment (not in the repository's sources): the
\* denylist of the specification's buildEnvironment is stripped
ManagerEnvOps ==
  << NilOp("os"), NilOp("io"), NilOp("debug"), NilOp("require"),
     NilOp("package"), NilOp("load"), NilOp("loadstring"), NilOp("loadfile"),
     NilOp("dofile"), NilOp("getfenv"), NilOp("setfenv"),
     NilOp("collectgarbage"), NilOp("coroutine"), SetOp("print") >>

\* the global table of a runtime: "main" is ExecutorCore.lua_runtime, "fresh"
\* the runtime of _execute_in_sandbox, "sandbox" Sandbox.lua_runtime, "lite"
\* the runtime of create_sandbox
RtEnv(rt) ==
  CASE rt = "main"    -> BuiltEnv("_setup_restricted_globals", luaVersion)
    [] rt = "fresh"   -> ApplyOps(HostGlobals(luaVersion), ManagerEnvOps,
                                  Len(ManagerEnvOps))
    [] rt = "sandbox" -> BuiltEnv("_setup_secure_environment", luaVersion)
    [] rt = "lite"    -> BuiltEnv("create_sandbox", luaVersion)

\* the worker after its next step: runtime.execute(script_content), one
\* statement at a time
WStep(w) ==
  CASE WStmt(w) = "end"   -> [w EXCEPT !.st = "finished"]
    [] WStmt(w) = "error" /\ w.script[1] # "wrapper" -> [w EXCEPT !.st = "raised"]
    [] WStmt(w) = "delay" -> [w EXCEPT !.left = 1]
    [] WStmt(w) = "work"  -> [w EXCEPT !.left = LongWork]
    [] WStmt(w) = "Debug" -> [w EXCEPT !.st = "raised"]
    [] WStmt(w) = "osexec" ->
         IF RtEnv(w.rt)["os"] = "host"
           THEN [w EXCEPT !.pos = @ + 1] ELSE [w EXCEPT !.st = "raised"]
    [] WStmt(w) = "getfenv" ->
         IF RtEnv(w.rt)["getfenv"] = "nil"
           THEN [w EXCEPT !.st = "raised"] ELSE [w EXCEPT !.pos = @ + 1]
    [] WStmt(w) \in {"print", "setg", "blob", "wrapper", "safe_defs",
                     "safe_getfenv", "blocked"} ->
         [w EXCEPT !.pos = @ + 1]

\* the globals of the worker's runtime after its next step
WGlobals(w, globals) ==
  IF WStmt(w) = "setg" THEN globals \cup {"G"} ELSE globals

\* the worker after a second has passed
WTick(w, d) ==
  IF w.st = "running" /\ w.left > 0
    THEN [w EXCEPT !.left = @ - d, !.pos = IF w.left = d THEN @ + 1 ELSE @]
    ELSE w

\* a join that has no timeout
JoinReturnsUntimed(w, left) == w.st # "running"

\* Thread.join(timeout) returns: the thread has ended or the timeout, of
\* which left seconds remain, has elapsed
JoinReturns(w, left) == w.st # "running" \/ left = 0

\* ------------------------------------------------- ExecutorCore: operations

\* set_sandbox_mode(enabled)
set_sandbox_mode(t, enabled) ==
  /\ cpc[t] = "idle"
  /\ sandbox_mode # enabled
  /\ sandbox_mode' = enabled
  /\ UNCHANGED << lua_runtime, is_running, bypass_mode, execution_timeout,
                  execution_stats, coreGlobals, cpc, cscript, ctrace, cerr,
                  cresult, cworker, cjoin, climit, cwait, cseen, cabandoned, ncalls >>

\* set_bypass_mode(enabled)
set_bypass_mode(t, enabled) ==
  /\ cpc[t] = "idle"
  /\ bypass_mode # enabled
  /\ bypass_mode' = enabled
  /\ UNCHANGED << lua_runtime, is_running, sandbox_mode, execution_timeout,
                  execution_stats, coreGlobals, cpc, cscript, ctrace, cerr,
                  cresult, cworker, cjoin, climit, cwait, cseen, cabandoned, ncalls >>

\* set_execution_timeout(timeout)
set_execution_timeout(t, timeout) ==
  /\ cpc[t] = "idle"
  /\ execution_timeout # timeout
  /\ execution_timeout' = timeout
  /\ UNCHANGED << lua_runtime, is_running, sandbox_mode, bypass_mode,
                  execution_stats, coreGlobals, cpc, cscript, ctrace, cerr,
                  cresult, cworker, cjoin, climit, cwait, cseen, cabandoned, ncalls >>

\* clear_execution_stats()
clear_execution_stats(t) ==
  /\ cpc[t] = "idle"
  /\ execution_stats.total_executions > 0
  /\ execution_stats' = [total_executions |-> 0, successful_executions |-> 0,
                         failed_executions |-> 0]
  /\ UNCHANGED << lua_runtime, is_running, sandbox_mode, bypass_mode,
                  execution_timeout, coreGlobals, cpc, cscript, ctrace, cerr,
                  cresult, cworker, cjoin, climit, cwait, cseen, cabandoned, ncalls >>

\* shutdown()
shutdown(t) ==
  /\ cpc[t] = "idle"
  /\ lua_runtime = "ready"
  /\ is_running' = FALSE
  /\ lua_runtime' = "none"
  /\ UNCHANGED << sandbox_mode, bypass_mode, execution_timeout,
                  execution_stats, coreGlobals, cpc, cscript, ctrace, cerr,
                  cresult, cworker, cjoin, climit, cwait, cseen, cabandoned, ncalls >>

\* execute_script, lines 139-146: the runtime check, the counter, the first
\* log record
ExecBegin(t, script) ==
  /\ cpc[t] = "idle"
  /\ ncalls < MaxCalls
  /\ ncalls' = ncalls + 1
  /\ cscript' = [cscript EXCEPT ![t] = script]
  /\ cerr' = [cerr EXCEPT ![t] = "-"]
  /\ cseen' = [cseen EXCEPT ![t] = {}]
  /\ IF lua_runtime = "none"
       THEN /\ cresult' = [cresult EXCEPT ![t] = "RuntimeError"]
            /\ ctrace' = [ctrace EXCEPT ![t] = << >>]
            /\ cpc' = [cpc EXCEPT ![t] = "return"]
            /\ UNCHANGED execution_stats
       ELSE /\ cresult' = [cresult EXCEPT ![t] = "none"]
            /\ execution_stats' =
                 [execution_stats EXCEPT !.total_executions = @ + 1]
            /\ ctrace' = [ctrace EXCEPT ![t] = << Ev("log_start") >>]
            /\ cpc' = [cpc EXCEPT ![t] = "validate"]
  /\ UNCHANGED << lua_runtime, is_running, sandbox_mode, bypass_mode,
                  execution_timeout, coreGlobals, cworker, cjoin, climit, cwait, cabandoned >>

\* a validation whose verdict does not stop the call
ExecValidateIgnored(t) ==
  /\ cpc[t] = "validate"
  /\ ctrace' = [ctrace EXCEPT ![t] =
       @ \o CoreValidateLog(cscript[t]) \o
       << Ev(IF CoreValidateScript(cscript[t])
               THEN "validate_ok" ELSE "validate_fail") >>]
  /\ cpc' = [cpc EXCEPT ![t] = "bypass"]
  /\ UNCHANGED << lua_runtime, is_running, sandbox_mode, bypass_mode,
                  execution_timeout, execution_stats, coreGlobals, cscript,
                  cerr, cresult, cworker, cjoin, climit, cwait, cseen, cabandoned, ncalls >>

\* execute_script, lines 148-150: validation
ExecValidate(t) ==
  /\ cpc[t] = "validate"
  /\ IF CoreValidateScript(cscript[t])
       THEN /\ ctrace' = [ctrace EXCEPT ![t] =
                 @ \o CoreValidateLog(cscript[t]) \o << Ev("validate_ok") >>]
            /\ cpc' = [cpc EXCEPT ![t] = "bypass"]
            /\ UNCHANGED cerr
       ELSE /\ ctrace' = [ctrace EXCEPT ![t] =
                 @ \o CoreValidateLog(cscript[t]) \o << Ev("validate_fail") >>]
            /\ cerr' = [cerr EXCEPT ![t] = "Script validation failed"]
            /\ cpc' = [cpc EXCEPT ![t] = "except"]
  /\ UNCHANGED << lua_runtime, is_running, sandbox_mode, bypass_mode,
                  execution_timeout, execution_stats, coreGlobals, cscript,
                  cresult, cworker, cjoin, climit, cwait, cseen, cabandoned, ncalls >>

\* execute_script, lines 152-154: the rewriter, if bypass mode is on
ExecBypass(t) ==
  /\ cpc[t] = "bypass"
  /\ IF bypass_mode
       THEN /\ cscript' = [cscript EXCEPT ![t] = ApplyBypass(@)]
            /\ ctrace' = [ctrace EXCEPT ![t] = Append(@, Ev("rewrite"))]
       ELSE /\ ctrace' = [ctrace EXCEPT ![t] = Append(@, Ev("no_rewrite"))]
            /\ UNCHANGED cscript
  /\ cpc' = [cpc EXCEPT ![t] = "dispatch"]
  /\ UNCHANGED << lua_runtime, is_running, sandbox_mode, bypass_mode,
                  execution_timeout, execution_stats, coreGlobals, cerr,
                  cresult, cworker, cjoin, climit, cwait, cseen, cabandoned, ncalls >>

\* execute_script, lines 164-168, with _execute_in_sandbox (a new runtime)
\* or _execute_directly (self.lua_runtime), up to thread.start() and the
\* call of thread.join in _execute_with_timeout
ExecDispatch(t) ==
  /\ cpc[t] = "dispatch"
  /\ IF sandbox_mode
       THEN /\ cworker' = [cworker EXCEPT ![t] = StartWorker(cscript[t], "fresh")]
            /\ cseen' = [cseen EXCEPT ![t] = {}]
            /\ ctrace' = [ctrace EXCEPT ![t] =
                 @ \o << Ev("new_runtime"), Ev("thread_start") >>]
       ELSE /\ cworker' = [cworker EXCEPT ![t] = StartWorker(cscript[t], "main")]
            /\ cseen' = [cseen EXCEPT ![t] = coreGlobals]
            /\ ctrace' = [ctrace EXCEPT ![t] = Append(@, Ev("thread_start"))]
  /\ cjoin' = [cjoin EXCEPT ![t] = execution_timeout]
  /\ climit' = [climit EXCEPT ![t] = execution_timeout]
  /\ cwait' = [cwait EXCEPT ![t] = 0]
  /\ cpc' = [cpc EXCEPT ![t] = "join"]
  /\ UNCHANGED << lua_runtime, is_running, sandbox_mode, bypass_mode,
                  execution_timeout, execution_stats, coreGlobals, cscript,
                  cerr, cresult, cabandoned, ncalls >>

\* _execute_with_timeout.execute_script: the thread runs the next statement
ExecWorker(t) ==
  /\ WCanStep(cworker[t])
  /\ cworker' = [cworker EXCEPT ![t] = WStep(@)]
  /\ coreGlobals' = IF cworker[t].rt = "main"
                      THEN WGlobals(cworker[t], coreGlobals) ELSE coreGlobals
  /\ UNCHANGED << lua_runtime, is_running, sandbox_mode, bypass_mode,
                  execution_timeout, execution_stats, cpc, cscript, ctrace,
                  cerr, cresult, cjoin, climit, cwait, cseen, cabandoned, ncalls >>

\* a thread left behind by a timeout runs its next statement
ExecAbandoned(w) ==
  /\ w \in cabandoned
  /\ WCanStep(w)
  /\ cabandoned' = (cabandoned \ {w}) \cup
                     (IF WStep(w).st = "running" THEN {WStep(w)} ELSE {})
  /\ coreGlobals' = IF w.rt = "main" THEN WGlobals(w, coreGlobals) ELSE coreGlobals
  /\ UNCHANGED << lua_runtime, is_running, sandbox_mode, bypass_mode,
                  execution_timeout, execution_stats, cpc, cscript, ctrace,
                  cerr, cresult, cworker, cjoin, climit, cwait, cseen, ncalls >>

\* _execute_with_timeout, line 269: thread.join(timeout) returns, the thread
\* having ended or the timeout having elapsed
ExecJoin(t) ==
  /\ cpc[t] = "join"
  /\ JoinReturns(cworker[t], cjoin[t])
  /\ cpc' = [cpc EXCEPT ![t] = "alive"]
  /\ UNCHANGED << lua_runtime, is_running, sandbox_mode, bypass_mode,
                  execution_timeout, execution_stats, coreGlobals, cscript,
                  ctrace, cerr, cresult, cworker, cjoin, climit, cwait, cseen, cabandoned,
                  ncalls >>

\* _execute_with_timeout, lines 271-279: thread.is_alive(), then the timeout
\* error, the script's exception or its result
ExecAlive(t) ==
  /\ cpc[t] = "alive"
  /\ CASE cworker[t].st = "running" ->
            /\ ctrace' = [ctrace EXCEPT ![t] = Append(@, Ev("log_error_timeout"))]
            /\ cerr' = [cerr EXCEPT ![t] = "Script execution timed out"]
            /\ cabandoned' = cabandoned \cup {cworker[t]}
            /\ cpc' = [cpc EXCEPT ![t] = "except"]
       [] cworker[t].st = "raised" ->
            /\ cerr' = [cerr EXCEPT ![t] = "script error"]
            /\ cpc' = [cpc EXCEPT ![t] = "except"]
            /\ UNCHANGED << ctrace, cabandoned >>
       [] cworker[t].st = "finished" ->
            /\ cpc' = [cpc EXCEPT ![t] = "success"]
            /\ UNCHANGED << ctrace, cerr, cabandoned >>
  /\ cworker' = [cworker EXCEPT ![t] = NoWorker]
  /\ cjoin' = [cjoin EXCEPT ![t] = 0]
  /\ UNCHANGED << climit, cwait >>
  /\ UNCHANGED << lua_runtime, is_running, sandbox_mode, bypass_mode,
                  execution_timeout, execution_stats, coreGlobals, cscript,
                  cresult, cseen, ncalls >>

\* execute_script, lines 170-179: the success path
ExecSuccess(t) ==
  /\ cpc[t] = "success"
  /\ execution_stats' = [execution_stats EXCEPT !.successful_executions = @ + 1]
  /\ ctrace' = [ctrace EXCEPT ![t] = Append(@, Ev("log_completed"))]
  /\ cresult' = [cresult EXCEPT ![t] = "ok"]
  /\ cpc' = [cpc EXCEPT ![t] = "return"]
  /\ UNCHANGED << lua_runtime, is_running, sandbox_mode, bypass_mode,
                  execution_timeout, coreGlobals, cscript, cerr, cworker,
                  cjoin, climit, cwait, cseen, cabandoned, ncalls >>

\* execute_script, lines 181-191: the exception handler
ExecExcept(t) ==
  /\ cpc[t] = "except"
  /\ execution_stats' = [execution_stats EXCEPT !.failed_executions = @ + 1]
  /\ ctrace' = [ctrace EXCEPT ![t] =
       @ \o << EvMsg("log_error", cerr[t]), Ev("log_error_traceback") >>]
  /\ cresult' = [cresult EXCEPT ![t] = "ExecutionError"]
  /\ cpc' = [cpc EXCEPT ![t] = "return"]
  /\ UNCHANGED << lua_runtime, is_running, sandbox_mode, bypass_mode,
                  execution_timeout, coreGlobals, cscript, cerr, cworker,
                  cjoin, climit, cwait, cseen, cabandoned, ncalls >>

\* execute_script returns or raises: the caller has the outcome, and the
\* record of the call is dropped
ExecReturn(t) ==
  /\ cpc[t] = "return"
  /\ cpc' = [cpc EXCEPT ![t] = "idle"]
  /\ cscript' = [cscript EXCEPT ![t] = << >>]
  /\ ctrace' = [ctrace EXCEPT ![t] = << >>]
  /\ cerr' = [cerr EXCEPT ![t] = "-"]
  /\ cresult' = [cresult EXCEPT ![t] = "none"]
  /\ cseen' = [cseen EXCEPT ![t] = {}]
  /\ climit' = [climit EXCEPT ![t] = 0]
  /\ cwait' = [cwait EXCEPT ![t] = 0]
  /\ UNCHANGED << lua_runtime, is_running, sandbox_mode, bypass_mode,
                  execution_timeout, execution_stats, coreGlobals, cworker,
                  cjoin, cabandoned, ncalls >>

\* some step of the executor core is due now, before time passes
CoreUrgent ==
  \/ \E t \in AllCallers :
       \/ cpc[t] \notin {"idle", "join"}
       \/ cpc[t] = "join" /\ (JoinReturns(cworker[t], cjoin[t]))
       \/ WCanStep(cworker[t])
  \/ \E w \in cabandoned : WCanStep(w)

\* the timers of the executor core: seconds until a join times out or a
\* statement that takes time ends
CoreTimers ==
  {cjoin[t] : t \in {u \in AllCallers : cpc[u] = "join" /\ cjoin[u] > 0}}
  \* the clock that follows a waiting call runs on to a second past its limit
  \cup {climit[t] + 1 - cwait[t] :
          t \in {u \in AllCallers : cpc[u] = "join" /\ cwait[u] <= climit[u]}}
  \cup {cworker[t].left : t \in {u \in AllCallers : cworker[u].left > 0}}
  \cup {w.left : w \in {x \in cabandoned : x.left > 0}}

\* d seconds pass for the executor core
CoreTick(d) ==
  /\ cjoin' = [t \in AllCallers |->
                 IF cpc[t] = "join" /\ cjoin[t] > 0
                   THEN cjoin[t] - d ELSE cjoin[t]]
  /\ cwait' = [t \in AllCallers |->
                 IF cpc[t] = "join" THEN cwait[t] + d ELSE cwait[t]]
  /\ cworker' = [t \in AllCallers |-> WTick(cworker[t], d)]
  /\ cabandoned' = {WTick(w, d) : w \in cabandoned}
  /\ UNCHANGED << lua_runtime, is_running, sandbox_mode, bypass_mode,
                  execution_timeout, execution_stats, coreGlobals, cpc,
                  cscript, ctrace, cerr, cresult, climit, cseen >>

\* ------------------------------------------------ Sandbox (executor/sandbox.py)

VARIABLES
  sbRuntime,       \* self.lua_runtime: "lupa", "mock" or "none"
  sb_is_running,   \* self.is_running
  stop_flag,       \* self.stop_flag
  output_buffer,   \* self.output_buffer
  mockOutput,      \* MockLuaRuntime.output
  sbGlobals,       \* globals scripts created in self.lua_runtime
  spc,             \* where the execute call stands
  sscript,         \* script_content of the call
  sworker,         \* execution_thread
  sjoin,           \* seconds left of the join in progress
  swait,           \* seconds the call has waited for its thread
  sresult,         \* the SandboxResult returned last
  sseen,           \* script-made globals the run started with
  sabandoned       \* timed-out threads still running

sbVars ==
  << sbRuntime, sb_is_running, stop_flag, output_buffer, mockOutput,
     sbGlobals, spc, sscript, sworker, sjoin, swait, sresult, sseen, sabandoned >>

\* Sandbox.__init__: config["max_execution_time"]
max_execution_time == 30

\* Sandbox.__init__: config["max_output_size"]
max_output_size == 1048576

\* Sandbox.execute: the second join, execution_thread.join(timeout=1.0)
StopGrace == 1

\* len(script_content): each statement is a short line, "blob" a string
\* literal of more than max_output_size characters
ScriptLen(script) ==
  IF \E i \in 1..Len(script) : script[i] = "blob"
    THEN max_output_size + 20 * Len(script)
    ELSE 20 * Len(script)

\* the scripts Sandbox.execute is called with
SandboxScripts ==
  { <<"print">>, <<"print", "setg">>, <<"print", "error">>, <<"spin">>,
    <<"print", "spin">>, <<"osexec">>, <<"blob">>, <<"work", "print">> }

NoResult == [success |-> FALSE, output |-> << >>, error |-> "no call yet"]

Result(success, output, error) ==
  [success |-> success, output |-> output, error |-> error]

\* the state of no Sandbox object in use
SbIdle ==
  /\ sbRuntime = "lupa"
  /\ sb_is_running = FALSE
  /\ stop_flag = FALSE
  /\ output_buffer = << >>
  /\ mockOutput = << >>
  /\ sbGlobals = {}
  /\ spc = "idle"
  /\ sscript = << >>
  /\ sworker = NoWorker
  /\ sjoin = 0
  /\ swait = 0
  /\ sresult = NoResult
  /\ sseen = {}
  /\ sabandoned = {}

\* Sandbox.__init__ with _init_lua_runtime: with lupa a LuaRuntime, without
\* it a MockLuaRuntime
SbInit ==
  /\ sbRuntime \in {"lupa", "mock"}
  /\ sb_is_running = FALSE
  /\ stop_flag = FALSE
  /\ output_buffer = << >>
  /\ mockOutput = << >>
  /\ sbGlobals = {}
  /\ spc = "idle"
  /\ sscript = << >>
  /\ sworker = NoWorker
  /\ sjoin = 0
  /\ swait = 0
  /\ sresult = NoResult
  /\ sseen = {}
  /\ sabandoned = {}

\* Sandbox.execute, lines 375-408: the buffer, the two early returns, the
\* thread start and the call of the first join
SbExecute(script) ==
  /\ spc = "idle"
  /\ ncalls < MaxCalls
  /\ ncalls' = ncalls + 1
  /\ sscript' = script
  /\ output_buffer' = << >>
  /\ swait' = 0
  /\ IF sbRuntime = "none"
       THEN /\ sresult' = Result(FALSE, << >>, "Lua runtime not available")
            /\ sb_is_running' = FALSE
            /\ UNCHANGED << stop_flag, spc, sworker, sjoin, sseen >>
       ELSE IF ScriptLen(script) > max_output_size
         THEN /\ sresult' = Result(FALSE, << >>, "Script too large")
              /\ sb_is_running' = FALSE
              /\ UNCHANGED << stop_flag, spc, sworker, sjoin, sseen >>
         ELSE /\ sb_is_running' = TRUE
              /\ stop_flag' = FALSE
              /\ sworker' = StartWorker(script, "sandbox")
              /\ sseen' = sbGlobals
              /\ sjoin' = max_execution_time
              /\ spc' = "join"
              /\ UNCHANGED sresult
  /\ UNCHANGED << sbRuntime, mockOutput, sbGlobals, sabandoned >>

\* what a thread's next step does to mockOutput, output_buffer, sbGlobals:
\* on the mock runtime, execute() appends one line to the runtime's output
\* and the whole of it is added to the buffer; on a Lua runtime print goes
\* through _safe_print into the buffer of the moment
SbEffect(w) ==
  IF sbRuntime = "mock"
    THEN /\ mockOutput' = Append(mockOutput, "Mock execution")
         /\ output_buffer' = output_buffer \o Append(mockOutput, "Mock execution")
         /\ UNCHANGED sbGlobals
    ELSE /\ output_buffer' = IF WStmt(w) = "print"
                               THEN Append(output_buffer, "hi") ELSE output_buffer
         /\ sbGlobals' = WGlobals(w, sbGlobals)
         /\ UNCHANGED mockOutput

\* a thread after its next step: on the mock runtime the whole of
\* _execute_with_timeout is one step
SbStep(w) ==
  IF sbRuntime = "mock" THEN [w EXCEPT !.st = "finished"] ELSE WStep(w)

SbCanStep(w) ==
  IF sbRuntime = "mock" THEN w.st = "running" ELSE WCanStep(w)

\* Sandbox._execute_with_timeout: the thread runs its next statement; an
\* exception ends the thread, re-raised in it unless stop_flag is set
SbWorker ==
  /\ SbCanStep(sworker)
  /\ sworker' = SbStep(sworker)
  /\ SbEffect(sworker)
  /\ UNCHANGED << sbRuntime, sb_is_running, stop_flag, spc, sscript, sjoin, swait,
                  sresult, sseen, sabandoned, ncalls >>

\* a thread left behind by a timeout runs its next statement
SbAbandoned(w) ==
  /\ w \in sabandoned
  /\ SbCanStep(w)
  /\ sabandoned' = (sabandoned \ {w}) \cup
                     (IF SbStep(w).st = "running" THEN {SbStep(w)} ELSE {})
  /\ SbEffect(w)
  /\ UNCHANGED << sbRuntime, sb_is_running, stop_flag, spc, sscript, sworker,
                  sjoin, swait, sresult, sseen, ncalls >>

\* Sandbox.execute, line 408: execution_thread.join(timeout) returns
SbJoin ==
  /\ spc = "join"
  /\ JoinReturns(sworker, sjoin)
  /\ spc' = "alive"
  /\ UNCHANGED << sbRuntime, sb_is_running, stop_flag, output_buffer,
                  mockOutput, sbGlobals, sscript, sworker, sjoin, swait, sresult,
                  sseen, sabandoned, ncalls >>

\* Sandbox.execute, lines 410-428 and 438-439: is_alive(); a live thread gets
\* the stop flag and a second join, an ended one makes the call return
\* success
SbAlive ==
  /\ spc = "alive"
  /\ IF sworker.st = "running"
       THEN /\ stop_flag' = TRUE
            /\ sjoin' = StopGrace
            /\ UNCHANGED swait
            /\ spc' = "join2"
            /\ UNCHANGED << sresult, sb_is_running >>
       ELSE /\ sresult' = Result(TRUE, output_buffer, "-")
            /\ sb_is_running' = FALSE
            /\ spc' = "idle"
            /\ UNCHANGED << stop_flag, sjoin, swait >>
  /\ UNCHANGED << sbRuntime, output_buffer, mockOutput, sbGlobals, sscript,
                  sworker, sseen, sabandoned, ncalls >>

\* Sandbox.execute, lines 412-418 and 438-439: the second join returns and
\* the call returns the timeout result; the thread is left running
SbTimeout ==
  /\ spc = "join2"
  /\ JoinReturns(sworker, sjoin)
  /\ sresult' = Result(FALSE, output_buffer, "Execution timeout")
  /\ sb_is_running' = FALSE
  /\ sabandoned' = IF sworker.st = "running"
                     THEN sabandoned \cup {sworker} ELSE sabandoned
  /\ sworker' = IF sworker.st = "running" THEN NoWorker ELSE sworker
  /\ spc' = "idle"
  /\ UNCHANGED << sbRuntime, stop_flag, output_buffer, mockOutput, sbGlobals,
                  sscript, sjoin, swait, sseen, ncalls >>

\* Sandbox.stop()
SbStop ==
  /\ ~stop_flag \/ sb_is_running
  /\ stop_flag' = TRUE
  /\ sb_is_running' = FALSE
  /\ UNCHANGED << sbRuntime, output_buffer, mockOutput, sbGlobals, spc,
                  sscript, sworker, sjoin, swait, sresult, sseen, sabandoned, ncalls >>

\* Sandbox.cleanup(): stop(), and a Lua runtime is dropped
SbCleanup ==
  /\ sbRuntime = "lupa"
  /\ stop_flag' = TRUE
  /\ sb_is_running' = FALSE
  /\ sbRuntime' = "none"
  /\ UNCHANGED << output_buffer, mockOutput, sbGlobals, spc, sscript,
                  sworker, sjoin, swait, sresult, sseen, sabandoned, ncalls >>

SbUrgent ==
  \/ spc = "alive"
  \/ spc \in {"join", "join2"} /\ (JoinReturns(sworker, sjoin))
  \/ SbCanStep(sworker)
  \/ \E w \in sabandoned : SbCanStep(w)

SbTimers ==
  (IF spc \in {"join", "join2"} /\ sjoin > 0 THEN {sjoin} ELSE {})
  \* the clock that follows a waiting call runs on to a second past its limit
  \cup (IF spc \in {"join", "join2"} /\ swait <= max_execution_time + StopGrace
         THEN {max_execution_time + StopGrace + 1 - swait} ELSE {})
  \cup (IF sworker.left > 0 THEN {sworker.left} ELSE {})
  \cup {w.left : w \in {x \in sabandoned : x.left > 0}}

\* d seconds pass for the sandbox
SbTick(d) ==
  /\ sjoin' = IF spc \in {"join", "join2"} /\ sjoin > 0 THEN sjoin - d ELSE sjoin
  /\ swait' = IF spc \in {"join", "join2"} THEN swait + d ELSE swait
  /\ sworker' = WTick(sworker, d)
  /\ sabandoned' = {WTick(w, d) : w \in sabandoned}
  /\ UNCHANGED << sbRuntime, sb_is_running, stop_flag, output_buffer,
                  mockOutput, sbGlobals, spc, sscript, sresult, sseen >>

\* ------------------------- the lighter executor (src/cia-roblox-executor)

VARIABLES
  lpc,          \* where the ExecutorCore.execute call stands
  lscript,      \* code
  ltrace,       \* what the call did so far, in order
  lresult,      \* how the last call ended
  lrun,         \* run_script: the script running on the caller's thread
  lelapsed,     \* seconds since run_script was entered
  liteGlobals,  \* globals scripts created in self.lua
  lseen         \* script-made globals the run started with

liteVars ==
  << lpc, lscript, ltrace, lresult, lrun, lelapsed, liteGlobals, lseen >>

\* utils/config.py: LUA_EXECUTION_TIMEOUT_SECONDS, the default
lua_timeout_seconds == 5

\* utils/config.py: MAX_SCRIPT_BYTES, the default
max_script_bytes == 20000

\* seconds a run_script call is followed for
MaxElapsed == 8

\* utils/config.py: BANNED_TOKENS
BANNED_TOKENS ==
  << "os.", "io.", "debug.", "package.", "require(", "load(", "loadstring(",
     "dofile(", "loadfile(", "setfenv(", "getfenv(", "collectgarbage(",
     "coroutine." >>

\* utils/config.py: INFINITE_LOOP_PATTERNS
INFINITE_LOOP_PATTERNS == << "while true do", "repeat\n" >>

\* the scripts ExecutorCore.execute is called with
LiteScripts ==
  { <<"print">>, <<"setg">>, <<"print", "error">>, <<"spin">>, <<"whiletrue">>,
    <<"delay", "print">>, <<"osexec">>, <<"Debug">>, <<"blob">> }

\* ai_module/validation.py validate_script: the errors (case-sensitive)
LiteValidateErrors(content) ==
  (IF ScriptLen(content) > max_script_bytes THEN {"size"} ELSE {})
  \cup {BANNED_TOKENS[k] : k \in
          {j \in 1..Len(BANNED_TOKENS) : Contains(ScriptText(content), BANNED_TOKENS[j])}}
  \cup {INFINITE_LOOP_PATTERNS[k] : k \in
          {j \in 1..Len(INFINITE_LOOP_PATTERNS) :
             Contains(ScriptText(content), INFINITE_LOOP_PATTERNS[j])}}

\* ExecutorCore.__init__ of the lighter executor
LiteInit ==
  /\ lpc = "idle"
  /\ lscript = << >>
  /\ ltrace = << >>
  /\ lresult = "none"
  /\ lrun = NoWorker
  /\ lelapsed = 0
  /\ liteGlobals = {}
  /\ lseen = {}

\* ExecutorCore.execute, line 31
LiteExecute(code) ==
  /\ lpc = "idle"
  /\ ncalls < MaxCalls
  /\ ncalls' = ncalls + 1
  /\ lscript' = code
  /\ ltrace' = << Ev("log_info_executing") >>
  /\ lresult' = "none"
  /\ lrun' = NoWorker
  /\ lpc' = "validate"
  /\ UNCHANGED << lelapsed, liteGlobals, lseen >>

\* ExecutorCore.execute, lines 32-36: validation, and the entry to run_script
LiteValidate ==
  /\ lpc = "validate"
  /\ IF LiteValidateErrors(lscript) # {}
       THEN /\ ltrace' = ltrace \o << Ev("validate_fail"), Ev("log_error") >>
            /\ lresult' = "ValueError"
            /\ lpc' = "idle"
            /\ UNCHANGED << lrun, lelapsed, lseen >>
       ELSE /\ ltrace' = ltrace \o << Ev("validate_ok"), Ev("run_script") >>
            /\ lrun' = StartWorker(lscript, "lite")
            /\ lelapsed' = 0
            /\ lseen' = liteGlobals
            /\ lpc' = "run"
            /\ UNCHANGED lresult
  /\ UNCHANGED << lscript, liteGlobals, ncalls >>

\* run_script, lines 22-23: the script runs its next statement, on the
\* caller's thread; timeout_seconds is not used
LiteRun ==
  /\ lpc = "run"
  /\ WCanStep(lrun)
  /\ lrun' = WStep(lrun)
  /\ liteGlobals' = WGlobals(lrun, liteGlobals)
  /\ UNCHANGED << lpc, lscript, ltrace, lresult, lelapsed, lseen, ncalls >>

\* run_script, lines 24-26, and ExecutorCore.execute, lines 37-38
LiteReturn ==
  /\ lpc = "run"
  /\ lrun.st \in {"finished", "raised"}
  /\ lresult' = IF lrun.st = "finished" THEN "ok" ELSE "error"
  /\ ltrace' = Append(ltrace, Ev("log_info_finished"))
  /\ lpc' = "idle"
  /\ UNCHANGED << lscript, lrun, lelapsed, liteGlobals, lseen, ncalls >>

LiteUrgent ==
  \/ lpc = "validate"
  \/ lpc = "run" /\ (WCanStep(lrun) \/ lrun.st \in {"finished", "raised"})

\* run_script has no timer; the call is followed second by second
LiteTimers == IF lpc = "run" /\ lelapsed < MaxElapsed THEN {1} ELSE {}

\* d seconds pass for the lighter executor
LiteTick(d) ==
  /\ lelapsed' = IF lpc = "run" THEN lelapsed + d ELSE lelapsed
  /\ lrun' = WTick(lrun, d)
  /\ UNCHANGED << lpc, lscript, ltrace, lresult, liteGlobals, lseen >>

\* ------------------------------------------------------------ ExecutionLogger
VARIABLES
  loggers,     \* how many ExecutionLogger objects have been constructed
  logLock,     \* per ExecutionLogger: the thread holding self._lock, or 0
  handlers,    \* per category: the file each FileHandler's stream is open on
  files,       \* per category: the files ever made, [lines, bytes] each
  dir,         \* per category: the file at each path, 0 the live one, or 0
  gpc,         \* per thread: where its logging call stands
  gop,         \* per thread: the operation called
  ginst,       \* per thread: the ExecutionLogger it is called on
  gsize,       \* per thread: the length of the record line
  gid,         \* per thread: the number of its call, which names its record
  gwrote,      \* per thread: lines the call appended to the live file
  gi,          \* per thread: the loop variable of _rotate_log
  nlog         \* logging calls made so far

logVars ==
  << loggers, logLock, handlers, files, dir, gpc, gop, ginst, gsize, gid,
     gwrote, gi, nlog >>

\* ExecutionLogger.__init__: self.max_log_size
max_log_size == 10485760

\* ExecutionLogger.__init__: self.max_log_files
max_log_files == 5

\* ExecutionLogger objects constructed at most
MaxLoggers == 2

\* logging calls made at most
MaxLogCalls == 2

\* the length of an ordinary record line
SmallRecord == 200

\* a record line long enough to take a file over max_log_size
BigRecord == max_log_size + 1

LogThreads == {1, 2}

\* execution.log, ai_interactions.log, errors.log, audit.log
Categories == {"execution", "ai", "errors", "audit"}

\* the logging operations: the logger each writes to, and whether it ends
\* with _check_log_rotation
LogOps ==
  [ log_execution      |-> [category |-> "execution", rotates |-> TRUE],
    log_ai_interaction |-> [category |-> "ai",        rotates |-> TRUE],
    log_error          |-> [category |-> "errors",    rotates |-> TRUE],
    log_warning        |-> [category |-> "execution", rotates |-> FALSE],
    log_output         |-> [category |-> "execution", rotates |-> FALSE],
    log_audit          |-> [category |-> "audit",     rotates |-> TRUE],
    log_security_event |-> [category |-> "audit",     rotates |-> FALSE],
    log_performance    |-> [category |-> "execution", rotates |-> FALSE] ]

\* the paths of a category: 0 the live file, i its backup with suffix .i
Paths == 0..max_log_files

NoFile == 0

\* lines and bytes of a file, and the calls whose record it holds
EmptyFile == [lines |-> 0, bytes |-> 0, recs |-> {}]

\* the category a thread's call writes to
Cat(t) == LogOps[gop[t]].category

\* the state of no logging in progress: one ExecutionLogger constructed in an
\* empty logs directory
LogIdle ==
  /\ loggers = 1
  /\ logLock = [k \in 1..MaxLoggers |-> 0]
  /\ handlers = [c \in Categories |-> << 1 >>]
  /\ files = [c \in Categories |-> << EmptyFile >>]
  /\ dir = [c \in Categories |-> [p \in Paths |-> IF p = 0 THEN 1 ELSE NoFile]]
  /\ gpc = [t \in LogThreads |-> "idle"]
  /\ gop = [t \in LogThreads |-> "log_execution"]
  /\ ginst = [t \in LogThreads |-> 1]
  /\ gsize = [t \in LogThreads |-> 0]
  /\ gid = [t \in LogThreads |-> 0]
  /\ gwrote = [t \in LogThreads |-> 0]
  /\ gi = [t \in LogThreads |-> 0]
  /\ nlog = 0

\* logging.FileHandler(path): the stream is opened for appending, which makes
\* the file if there is none
OpenedFiles(c) ==
  IF dir[c][0] = NoFile THEN Append(files[c], EmptyFile) ELSE files[c]

OpenedDir(c) ==
  IF dir[c][0] = NoFile
    THEN [dir[c] EXCEPT ![0] = Len(files[c]) + 1] ELSE dir[c]

\* ExecutionLogger.__init__ with _setup_logging: one more FileHandler is
\* added to each of the four loggers of the logging module, and the object
\* gets a lock of its own
NewLogger ==
  /\ loggers < MaxLoggers
  /\ loggers' = loggers + 1
  /\ files' = [c \in Categories |-> OpenedFiles(c)]
  /\ dir' = [c \in Categories |-> OpenedDir(c)]
  /\ handlers' = [c \in Categories |-> Append(handlers[c], OpenedDir(c)[0])]
  /\ UNCHANGED << logLock, gpc, gop, ginst, gsize, gid, gwrote, gi, nlog >>

\* a logging operation is entered: with self._lock
LogAcquire(t, k, op, size) ==
  /\ gpc[t] = "idle"
  /\ nlog < MaxLogCalls
  /\ k <= loggers
  /\ logLock[k] = 0
  /\ logLock' = [logLock EXCEPT ![k] = t]
  /\ nlog' = nlog + 1
  /\ gpc' = [gpc EXCEPT ![t] = "emit"]
  /\ gop' = [gop EXCEPT ![t] = op]
  /\ ginst' = [ginst EXCEPT ![t] = k]
  /\ gsize' = [gsize EXCEPT ![t] = size]
  /\ gid' = [gid EXCEPT ![t] = nlog + 1]
  /\ gwrote' = [gwrote EXCEPT ![t] = 0]
  /\ gi' = [gi EXCEPT ![t] = 0]
  /\ UNCHANGED << loggers, handlers, files, dir >>

\* how many handlers of a category have their stream open on file f
StreamsOn(c, f) ==
  Cardinality({h \in 1..Len(handlers[c]) : handlers[c][h] = f})

\* Logger.info / warning / error: every handler of the logger writes the
\* line to its stream
Emitted(c, size, id) ==
  [f \in 1..Len(files[c]) |->
     [lines |-> files[c][f].lines + StreamsOn(c, f),
      bytes |-> files[c][f].bytes + size * StreamsOn(c, f),
      recs  |-> IF StreamsOn(c, f) > 0
                  THEN files[c][f].recs \cup {id} ELSE files[c][f].recs]]

\* the operation writes its record
LogEmit(t) ==
  /\ gpc[t] = "emit"
  /\ files' = [files EXCEPT ![Cat(t)] = Emitted(Cat(t), gsize[t], gid[t])]
  /\ gwrote' = [gwrote EXCEPT ![t] =
       IF dir[Cat(t)][0] = NoFile THEN 0 ELSE StreamsOn(Cat(t), dir[Cat(t)][0])]
  /\ gpc' = [gpc EXCEPT ![t] =
       IF LogOps[gop[t]].rotates THEN "check" ELSE "release"]
  /\ UNCHANGED << loggers, logLock, handlers, dir, gop, ginst, gsize, gid, gi, nlog >>

\* _check_log_rotation: log_path.exists() and st_size > self.max_log_size
LogCheck(t) ==
  /\ gpc[t] = "check"
  /\ IF /\ dir[Cat(t)][0] # NoFile
        /\ files[Cat(t)][dir[Cat(t)][0]].bytes > max_log_size
       THEN /\ gpc' = [gpc EXCEPT ![t] = "shift"]
            /\ gi' = [gi EXCEPT ![t] = max_log_files - 1]
       ELSE /\ gpc' = [gpc EXCEPT ![t] = "release"]
            /\ UNCHANGED gi
  /\ UNCHANGED << loggers, logLock, handlers, files, dir, gop, ginst, gsize, gid,
                  gwrote, nlog >>

\* _rotate_log, one turn of the loop: backup i becomes backup i + 1
LogShift(t) ==
  /\ gpc[t] = "shift"
  /\ dir' = [dir EXCEPT ![Cat(t)] =
       IF @[gi[t]] = NoFile
         THEN @
         ELSE [@ EXCEPT ![gi[t] + 1] = dir[Cat(t)][gi[t]], ![gi[t]] = NoFile]]
  /\ gi' = [gi EXCEPT ![t] = @ - 1]
  /\ gpc' = [gpc EXCEPT ![t] = IF gi[t] = 1 THEN "backup" ELSE "shift"]
  /\ UNCHANGED << loggers, logLock, handlers, files, gop, ginst, gsize, gid,
                  gwrote, nlog >>

\* _rotate_log: backup 1 is removed and the live file renamed to it; with no
\* live file the rename raises, and the handler of the exception writes a
\* line to the errors logger
LogBackup(t) ==
  /\ gpc[t] = "backup"
  /\ IF dir[Cat(t)][0] = NoFile
       THEN /\ dir' = [dir EXCEPT ![Cat(t)] = [@ EXCEPT ![1] = NoFile]]
            /\ files' = [files EXCEPT !["errors"] = Emitted("errors", SmallRecord, 0)]
            /\ gpc' = [gpc EXCEPT ![t] = "release"]
       ELSE /\ dir' = [dir EXCEPT ![Cat(t)] =
                 [@ EXCEPT ![1] = dir[Cat(t)][0], ![0] = NoFile]]
            /\ gpc' = [gpc EXCEPT ![t] = "touch"]
            /\ UNCHANGED files
  /\ UNCHANGED << loggers, logLock, handlers, gop, ginst, gsize, gid, gwrote, gi,
                  nlog >>

\* _rotate_log: log_path.touch()
LogTouch(t) ==
  /\ gpc[t] = "touch"
  /\ files' = [files EXCEPT ![Cat(t)] = OpenedFiles(Cat(t))]
  /\ dir' = [dir EXCEPT ![Cat(t)] = OpenedDir(Cat(t))]
  /\ gpc' = [gpc EXCEPT ![t] = "release"]
  /\ UNCHANGED << loggers, logLock, handlers, gop, ginst, gsize, gid, gwrote, gi,
                  nlog >>

\* the with block is left: self._lock is released
LogRelease(t) ==
  /\ gpc[t] = "release"
  /\ logLock' = [logLock EXCEPT ![ginst[t]] = 0]
  /\ gpc' = [gpc EXCEPT ![t] = "done"]
  /\ UNCHANGED << loggers, handlers, files, dir, gop, ginst, gsize, gid, gwrote,
                  gi, nlog >>

\* the operation returns
LogReturn(t) ==
  /\ gpc[t] = "done"
  /\ gpc' = [gpc EXCEPT ![t] = "idle"]
  /\ gop' = [gop EXCEPT ![t] = "log_execution"]
  /\ ginst' = [ginst EXCEPT ![t] = 1]
  /\ gsize' = [gsize EXCEPT ![t] = 0]
  /\ gid' = [gid EXCEPT ![t] = 0]
  /\ gwrote' = [gwrote EXCEPT ![t] = 0]
  /\ UNCHANGED << loggers, logLock, handlers, files, dir, gi, nlog >>

\* ------------------------------------------------------------ text
\* A text is the sequence of its lines, as str.split('\n') gives them, and a
\* line the sequence of its characters: the empty text is one empty line.

EmptyLine == << >>

IsSpace(ch) == ch \in {" ", "\t"}

RECURSIVE LStrip(_)
LStrip(s) == IF s # << >> /\ IsSpace(Head(s)) THEN LStrip(Tail(s)) ELSE s

RECURSIVE RStrip(_)
RStrip(s) ==
  IF s # << >> /\ IsSpace(s[Len(s)])
    THEN RStrip(SubSeq(s, 1, Len(s) - 1)) ELSE s

\* str.strip()
Strip(s) == RStrip(LStrip(s))

\* str.startswith(pre)
StartsWith(s, pre) == Len(s) >= Len(pre) /\ SubSeq(s, 1, Len(pre)) = pre

\* str.endswith(suf)
EndsWith(s, suf) ==
  Len(s) >= Len(suf) /\ SubSeq(s, Len(s) - Len(suf) + 1, Len(s)) = suf

\* the places at which sub occurs in s
Occurrences(s, sub) ==
  {i \in 1..(Len(s) - Len(sub) + 1) : SubSeq(s, i, i + Len(sub) - 1) = sub}

\* sub in s
HasSub(s, sub) == Occurrences(s, sub) # {}

\* str.find(sub), counted from 1; 0 when there is none
Find(s, sub) ==
  IF Occurrences(s, sub) = {} THEN 0
  ELSE CHOOSE i \in Occurrences(s, sub) : \A j \in Occurrences(s, sub) : i <= j

\* str.split(sep, 1)
SplitOnce(s, sep) ==
  IF Find(s, sep) = 0 THEN << s >>
  ELSE << SubSeq(s, 1, Find(s, sep) - 1),
          SubSeq(s, Find(s, sep) + Len(sep), Len(s)) >>

\* '\n'.join(lines) as a text: joining no line gives the empty text
JoinLines(lines) == IF lines = << >> THEN << EmptyLine >> ELSE lines

\* len(text): the characters of the lines and the newlines between them
RECURSIVE TextLen(_)
TextLen(lines) ==
  IF Len(lines) = 1 THEN Len(lines[1])
  ELSE Len(lines[1]) + 1 + TextLen(Tail(lines))

\* ------------------------------------------------------------ FileManager
\* the scripts and metadata the callers save

ScriptBodies ==
  { << << "p", "r", "i", "n", "t", "(", "1", ")" >> >>,
    << << "x", "=", "1" >>,
       << "p", "r", "i", "n", "t", "(", "x", ")" >> >>,
    << << >> >>,
    << << " ", " ", "x", "=", "1" >>,
       << >> >> }

\* a metadata dict, as the sequence of its items; None is the empty one
NoMetadata == << >>

MetadataMaps ==
  { NoMetadata,
    << << << "b", "y" >>, << "m", "e" >> >> >>,
    << << << "n" >>, << "1" >> >> >>,
    << << << "a", ":", " ", "b" >>, << "c" >> >> >>,
    << << << "k" >>, << "v" >> >>,
       << << "t" >>, << "x", " ", "y" >> >> >> }

MetadataMarker ==
    << "-", "-", " ", "C", "I", "A", " ", "R", "o", "b", "l", "o", "x",
       " ", "E", "x", "e", "c", "u", "t", "o", "r", " ", "-", " ", "S",
       "c", "r", "i", "p", "t", " ", "M", "e", "t", "a", "d", "a", "t",
       "a" >>

EndMarker == << "-", "-", " ", "E", "n", "d", " ", "M", "e", "t", "a", "d",
                "a", "t", "a" >>

\* f"-- Generated: {datetime.now().isoformat()}" at some moment
GeneratedLine ==
    << "-", "-", " ", "G", "e", "n", "e", "r", "a", "t", "e", "d", ":",
       " ", "2", "0", "2", "6", "-", "1", "1", "-", "0", "1", "T", "0",
       "8", ":", "4", "2", ":", "3", "9", ".", "9", "9", "6", "4", "6",
       "6" >>

\* f"-- File Manager: {self.__class__.__name__}"
FileManagerLine ==
    << "-", "-", " ", "F", "i", "l", "e", " ", "M", "a", "n", "a", "g",
       "e", "r", ":", " ", "F", "i", "l", "e", "M", "a", "n", "a", "g",
       "e", "r" >>

\* f"-- {key}: {value}" for a value that is neither dict nor list
MetadataLine(item) == << "-", "-", " " >> \o item[1] \o << ":", " " >> \o item[2]

\* _create_metadata_header: the lines of the header
CreateMetadataHeader(metadata) ==
  << MetadataMarker, GeneratedLine, FileManagerLine, << "-", "-" >> >>
    \o [i \in 1..Len(metadata) |-> MetadataLine(metadata[i])]
    \o << EndMarker >>

Digits == {"0", "1", "2", "3", "4", "5", "6", "7", "8", "9"}

\* json.loads(value) inside try / except JSONDecodeError: the texts that are
\* JSON numbers or literals become values of another type, any other text
\* here raises and is kept as the string
JsonOrString(value) ==
  IF /\ value # << >>
     /\ \A i \in 1..Len(value) : value[i] \in Digits
     /\ (Len(value) = 1 \/ value[1] # "0")
    THEN [kind |-> "int", text |-> value]
  ELSE IF value \in { << "t", "r", "u", "e" >>, << "f", "a", "l", "s", "e" >> }
    THEN [kind |-> "bool", text |-> value]
  ELSE IF value = << "n", "u", "l", "l" >>
    THEN [kind |-> "None", text |-> value]
  ELSE [kind |-> "str", text |-> value]

\* a string value of a metadata dict
Str(value) == [kind |-> "str", text |-> value]

\* metadata[key] = value
DictSet(d, key, value) ==
  [k \in DOMAIN d \cup {key} |-> IF k = key THEN value ELSE d[k]]

\* _extract_metadata: the loop over the lines, from line i on
RECURSIVE ExtractFrom(_, _, _, _)
ExtractFrom(lines, i, in_metadata, metadata) ==
  IF i > Len(lines) THEN metadata
  ELSE IF Strip(lines[i]) = MetadataMarker
    THEN ExtractFrom(lines, i + 1, TRUE, metadata)
  ELSE IF Strip(lines[i]) = EndMarker THEN metadata
  ELSE IF in_metadata /\ StartsWith(Strip(lines[i]), << "-", "-", " " >>)
    THEN LET line  == Strip(lines[i])
             parts == SplitOnce(SubSeq(line, 4, Len(line)), << ":", " " >>)
         IN  IF Len(parts) = 2
               THEN ExtractFrom(lines, i + 1, in_metadata,
                      DictSet(metadata, parts[1], JsonOrString(parts[2])))
               ELSE ExtractFrom(lines, i + 1, in_metadata, metadata)
  ELSE ExtractFrom(lines, i + 1, in_metadata, metadata)

\* _extract_metadata
ExtractMetadata(lines) == ExtractFrom(lines, 1, FALSE, << >>)

\* _remove_metadata_header: end_idx, the first line that is the end marker
EndIdx(lines) ==
  IF \E i \in 1..Len(lines) : Strip(lines[i]) = EndMarker
    THEN CHOOSE i \in 1..Len(lines) :
           /\ Strip(lines[i]) = EndMarker
           /\ \A j \in 1..(i - 1) : Strip(lines[j]) # EndMarker
    ELSE 0

\* _remove_metadata_header: the lines after the end marker, when the start
\* marker was met before it
RemoveMetadataHeader(lines) ==
  IF /\ EndIdx(lines) # 0
     /\ \E i \in 1..(EndIdx(lines) - 1) : Strip(lines[i]) = MetadataMarker
    THEN JoinLines(SubSeq(lines, EndIdx(lines) + 1, Len(lines)))
    ELSE lines

\* save_generated_script: full_content
FullContent(script_content, metadata) ==
  IF metadata # NoMetadata
    THEN CreateMetadataHeader(metadata) \o << EmptyLine >> \o script_content
    ELSE script_content

\* load_script: content and metadata as returned
LoadedContent(lines) ==
  IF ExtractMetadata(lines) # << >> THEN RemoveMetadataHeader(lines) ELSE lines

VARIABLES
  scriptsDir,  \* scripts_dir: per file name the text of the file, or Absent
  backupDir,   \* backup_dir: per file name the text of the file, or Absent
  fmResult,    \* what the last FileManager call gave its caller
  fmWritten,   \* per script: the arguments of the save that wrote the file
  fmDeleted,   \* per script absent after delete_script: the text it had
  nfm          \* FileManager calls made so far

fileVars == << scriptsDir, backupDir, fmResult, fmWritten, fmDeleted, nfm >>

\* FileManager calls made at most
MaxFileOps == 4

DotLua == << ".", "l", "u", "a" >>

DotBackup == << ".", "b", "a", "c", "k", "u", "p" >>

\* the files that can be in scripts_dir, and the names callers pass
ScriptFiles ==
  { << "a", ".", "l", "u", "a" >>,
    << "b", ".", "l", "u", "a" >> }

ScriptNames == ScriptFiles \cup { << "a" >> }

\* f"{script_name}.backup"
BackupName(script_name) == script_name \o DotBackup

BackupFiles == {BackupName(n) : n \in ScriptFiles}

\* no file at a path; a text has at least one line
Absent == << >>

\* the file in scripts_dir was written by something else than a save
NotSaved == [body |-> Absent, metadata |-> NoMetadata]

\* backup_name is None
NoName == << >>

\* Path.exists()
Exists(directory, name) ==
  name \in DOMAIN directory /\ directory[name] # Absent

\* FileManager.__init__: the directories are made, nothing is in them
FilesInit ==
  /\ scriptsDir = [n \in ScriptFiles |-> Absent]
  /\ backupDir = [n \in BackupFiles |-> Absent]
  /\ fmResult = [op |-> "none"]
  /\ fmWritten = [n \in ScriptFiles |-> NotSaved]
  /\ fmDeleted = [n \in ScriptFiles |-> Absent]
  /\ nfm = 0

\* save_generated_script: script_name with the .lua extension
SavedName(script_name) ==
  IF EndsWith(script_name, DotLua) THEN script_name ELSE script_name \o DotLua

save_generated_script(script_name, script_content, metadata) ==
  /\ nfm < MaxFileOps
  /\ nfm' = nfm + 1
  /\ scriptsDir' = [scriptsDir EXCEPT ![SavedName(script_name)] =
       FullContent(script_content, metadata)]
  /\ fmWritten' = [fmWritten EXCEPT ![SavedName(script_name)] =
       [body |-> script_content, metadata |-> metadata]]
  /\ fmDeleted' = [fmDeleted EXCEPT ![SavedName(script_name)] = Absent]
  /\ fmResult' = [op |-> "save_generated_script", raised |-> "none",
                  name |-> SavedName(script_name)]
  /\ UNCHANGED backupDir

load_script(script_path) ==
  /\ nfm < MaxFileOps
  /\ nfm' = nfm + 1
  /\ fmResult' =
       IF Exists(scriptsDir, script_path)
         THEN [op |-> "load_script", raised |-> "none", name |-> script_path,
               content  |-> LoadedContent(scriptsDir[script_path]),
               metadata |-> ExtractMetadata(scriptsDir[script_path])]
         ELSE [op |-> "load_script", raised |-> "FileNotFoundError",
               name |-> script_path]
  /\ UNCHANGED << scriptsDir, backupDir, fmWritten, fmDeleted >>

\* delete_script; io tells which of shutil.copy2 and unlink fails, if any.
\* Every exception is caught, logged and turned into the return value False
delete_script(script_name, io) ==
  /\ nfm < MaxFileOps
  /\ nfm' = nfm + 1
  /\ fmResult' = [op |-> "delete_script", raised |-> "none",
                  name |-> script_name, io |-> io,
                  existed |-> Exists(scriptsDir, script_name),
                  returned |-> Exists(scriptsDir, script_name) /\ io = "ok",
                  logged |-> IF ~Exists(scriptsDir, script_name)
                               THEN "FileNotFoundError"
                             ELSE IF io = "ok" THEN "none" ELSE "OSError"]
  /\ IF ~Exists(scriptsDir, script_name) \/ io = "copy_fails"
       THEN UNCHANGED << scriptsDir, backupDir, fmWritten, fmDeleted >>
     ELSE /\ backupDir' = [backupDir EXCEPT ![BackupName(script_name)] =
                 scriptsDir[script_name]]
          /\ IF io = "unlink_fails"
               THEN UNCHANGED << scriptsDir, fmWritten, fmDeleted >>
               ELSE /\ scriptsDir' = [scriptsDir EXCEPT ![script_name] = Absent]
                    /\ fmWritten' = [fmWritten EXCEPT ![script_name] = NotSaved]
                    /\ fmDeleted' = [fmDeleted EXCEPT ![script_name] =
                         scriptsDir[script_name]]

\* backup_script; without a backup_name the copy gets a name with the time
\* in it, which is none of the names followed here
backup_script(script_name, backup_name) ==
  /\ nfm < MaxFileOps
  /\ nfm' = nfm + 1
  /\ fmResult' = [op |-> "backup_script", name |-> script_name,
                  raised |-> IF Exists(scriptsDir, script_name)
                               THEN "none" ELSE "FileNotFoundError"]
  /\ backupDir' =
       IF Exists(scriptsDir, script_name) /\ backup_name # NoName
         THEN [backupDir EXCEPT ![backup_name] = scriptsDir[script_name]]
         ELSE backupDir
  /\ UNCHANGED << scriptsDir, fmWritten, fmDeleted >>

\* restore_script with target_name None: backup_name without its .backup
RestoredName(backup_name) ==
  IF EndsWith(backup_name, DotBackup)
    THEN SubSeq(backup_name, 1, Len(backup_name) - 7) ELSE backup_name

restore_script(backup_name) ==
  /\ nfm < MaxFileOps
  /\ nfm' = nfm + 1
  /\ fmResult' = [op |-> "restore_script", name |-> backup_name,
                  raised |-> IF Exists(backupDir, backup_name)
                               THEN "none" ELSE "FileNotFoundError"]
  /\ IF Exists(backupDir, backup_name)
       THEN /\ scriptsDir' = [scriptsDir EXCEPT ![RestoredName(backup_name)] =
                 backupDir[backup_name]]
            /\ fmWritten' = [fmWritten EXCEPT ![RestoredName(backup_name)] =
                 NotSaved]
            /\ fmDeleted' = [fmDeleted EXCEPT ![RestoredName(backup_name)] =
                 Absent]
       ELSE UNCHANGED << scriptsDir, fmWritten, fmDeleted >>
  /\ UNCHANGED backupDir

\* ------------------------------------------------------------ model routing

UpperCase ==
    << "A", "B", "C", "D", "E", "F", "G", "H", "I", "J", "K", "L", "M",
       "N", "O", "P", "Q", "R", "S", "T", "U", "V", "W", "X", "Y", "Z" >>

LowerCase ==
    << "a", "b", "c", "d", "e", "f", "g", "h", "i", "j", "k", "l", "m",
       "n", "o", "p", "q", "r", "s", "t", "u", "v", "w", "x", "y", "z" >>

\* str.lower() of one character
LowerChar(ch) ==
  IF \E i \in 1..Len(UpperCase) : UpperCase[i] = ch
    THEN LowerCase[CHOOSE i \in 1..Len(UpperCase) : UpperCase[i] = ch]
    ELSE ch

\* str.lower()
ToLower(s) == [i \in 1..Len(s) |-> LowerChar(s[i])]

\* any(keyword in text for keyword in keywords)
AnyKeyword(text, keywords) == \E keyword \in keywords : HasSub(text, keyword)

KwPython == << "p", "y", "t", "h", "o", "n" >>
KwAutomation == << "a", "u", "t", "o", "m", "a", "t", "i", "o", "n" >>
KwScripting == << "s", "c", "r", "i", "p", "t", "i", "n", "g" >>
KwRepo == << "r", "e", "p", "o" >>
KwMultiFile == << "m", "u", "l", "t", "i", "-", "f", "i", "l", "e" >>
KwGithub == << "g", "i", "t", "h", "u", "b" >>
KwComplex == << "c", "o", "m", "p", "l", "e", "x" >>

\* AIInterface._select_best_model
SelectBestModel(user_request) ==
  IF AnyKeyword(ToLower(user_request), {KwPython, KwAutomation, KwScripting})
    THEN "deepseek"
  ELSE IF AnyKeyword(ToLower(user_request), {KwRepo, KwMultiFile, KwGithub, KwComplex})
    THEN "starcoder2"
  ELSE "mistral"

\* route_prompt of the gateway
RoutePrompt(prompt) ==
  IF HasSub(ToLower(prompt), KwPython) \/ HasSub(ToLower(prompt), KwAutomation)
    THEN "deepseek"
  ELSE IF \/ HasSub(ToLower(prompt), KwRepo)
          \/ HasSub(ToLower(prompt), KwMultiFile)
          \/ HasSub(ToLower(prompt), KwGithub)
    THEN "starcoder2"
  ELSE "mistral"

\* the words prompts are made of
PromptWords ==
  { << "p", "y", "t", "h", "o", "n" >>,
    << "a", "u", "t", "o", "m", "a", "t", "i", "o", "n" >>,
    << "s", "c", "r", "i", "p", "t", "i", "n", "g" >>,
    << "r", "e", "p", "o" >>,
    << "m", "u", "l", "t", "i", "-", "f", "i", "l", "e" >>,
    << "g", "i", "t", "h", "u", "b" >>,
    << "c", "o", "m", "p", "l", "e", "x" >>,
    << "b", "l", "o", "c", "k" >>,
    << "P", "y", "t", "h", "o", "n" >>,
    << "G", "I", "T", "H", "U", "B" >>,
    << "r", "e", "p", "o", "r", "t" >> }

PromptPythonScript ==
    << "w", "r", "i", "t", "e", " ", "a", " ", "p", "y", "t", "h", "o",
       "n", " ", "a", "u", "t", "o", "m", "a", "t", "i", "o", "n", " ",
       "s", "c", "r", "i", "p", "t" >>

PromptGithubRepo ==
    << "h", "e", "l", "p", " ", "m", "e", " ", "m", "a", "n", "a", "g",
       "e", " ", "a", " ", "m", "u", "l", "t", "i", "-", "f", "i", "l",
       "e", " ", "g", "i", "t", "h", "u", "b", " ", "r", "e", "p", "o" >>

PromptBlock ==
    << "m", "a", "k", "e", " ", "a", " ", "b", "l", "o", "c", "k", " ",
       "d", "i", "s", "a", "p", "p", "e", "a", "r" >>

\* the prompts routed: the three of the documentation, and one or two words
Prompts ==
  {PromptPythonScript, PromptGithubRepo, PromptBlock}
    \cup PromptWords
    \cup {v \o << " " >> \o w : v \in PromptWords, w \in PromptWords}

VARIABLES
  rtPrompt,    \* the prompt
  rtSelected,  \* what _select_best_model returned for it, "" before the call
  rtRouted     \* what route_prompt returned for it, "" before the call

routeVars == << rtPrompt, rtSelected, rtRouted >>

RouteIdle ==
  /\ rtPrompt = << >>
  /\ rtSelected = ""
  /\ rtRouted = ""

RouteInit ==
  /\ rtPrompt \in Prompts
  /\ rtSelected = ""
  /\ rtRouted = ""

\* the prompt goes through AIInterface._select_best_model
RouteSelect ==
  /\ rtSelected = ""
  /\ rtSelected' = SelectBestModel(rtPrompt)
  /\ UNCHANGED << rtPrompt, rtRouted >>

\* the prompt goes through the gateway's route_prompt
RouteGateway ==
  /\ rtRouted = ""
  /\ rtRouted' = RoutePrompt(rtPrompt)
  /\ UNCHANGED << rtPrompt, rtSelected >>

\* ------------------------------------------------------------ AIInterface
VARIABLES
  generation_history,  \* self.generation_history
  aiResult,            \* what the last AIInterface call gave its caller
  aiCount,             \* generations stored so far
  aiStored             \* the entries stored since the history was last cleared

aiVars == << generation_history, aiResult, aiCount, aiStored >>

\* _store_generation_history: the entries kept
HistoryCap == 100

\* generations stored at most
MaxGenerations == 102

\* self.models
Models == {"mistral", "deepseek", "starcoder2"}

\* the model argument: None, or a name that is not in self.models
NoModel == ""

ModelArguments == {NoModel, "gpt"}

AiInit ==
  /\ generation_history = << >>
  /\ aiResult = [op |-> "none"]
  /\ aiCount = 0
  /\ aiStored = << >>

\* the last n elements: s[-n:] for n > 0
LastOf(s, n) == IF Len(s) > n THEN SubSeq(s, Len(s) - n + 1, Len(s)) ELSE s

\* _store_generation_history, with the oldest entries kept
StoreKeepingOldest(history, entry) ==
  IF Len(Append(history, entry)) > HistoryCap
    THEN SubSeq(Append(history, entry), 1, HistoryCap)
    ELSE Append(history, entry)

\* _store_generation_history: append, then keep the last 100
StoreGenerationHistory(history, entry) ==
  IF Len(Append(history, entry)) > HistoryCap
    THEN LastOf(Append(history, entry), HistoryCap)
    ELSE Append(history, entry)

\* generate_roblox_script; answer tells whether the call of the model's API
\* gives a response or fails
generate_roblox_script(user_request, model, answer) ==
  LET chosen == IF model = NoModel THEN SelectBestModel(user_request) ELSE model
      raised == IF chosen \notin Models THEN "ValueError"
                ELSE IF answer = "fails" THEN "Exception" ELSE "none"
      entry  == [id |-> aiCount + 1, model |-> chosen]
  IN  /\ aiCount < MaxGenerations
      /\ aiResult' = [op |-> "generate_roblox_script", raised |-> raised,
                      model |-> chosen]
      /\ IF raised = "none"
           THEN /\ generation_history' =
                     StoreGenerationHistory(generation_history, entry)
                /\ aiCount' = aiCount + 1
                /\ aiStored' = Append(aiStored, entry)
           ELSE UNCHANGED << generation_history, aiCount, aiStored >>

\* get_generation_history: self.generation_history[-limit:], which is the
\* whole list for limit = 0
get_generation_history(limit) ==
  /\ aiResult' = [op |-> "get_generation_history", raised |-> "none",
                  returned |-> IF limit = 0 THEN Len(generation_history)
                               ELSE Len(LastOf(generation_history, limit))]
  /\ UNCHANGED << generation_history, aiCount, aiStored >>

clear_generation_history ==
  /\ generation_history' = << >>
  /\ aiStored' = << >>
  /\ aiResult' = [op |-> "clear_generation_history", raised |-> "none"]
  /\ UNCHANGED aiCount

\* ------------------------------------------------------------ generate_lua
\* AIInterface of the lighter executor
VARIABLES
  glpc,        \* where the call of generate_lua stands
  glGoal,      \* its goal
  backend_error,  \* the exception of _call_backend, or "none"
  glContacts,  \* the servers the call has contacted, in order
  glResult,    \* what the call gave its caller
  ngl          \* calls made so far

glVars == << glpc, glGoal, backend_error, glContacts, glResult, ngl >>

\* calls of generate_lua made at most
MaxLuaCalls == 2

Goals == {"jump", "spin a part", ""}

\* what a POST gives: a JSON body with or without "response", or an exception
\* of requests.post, raise_for_status or resp.json
Answers ==
  { [ok |-> TRUE,  text |-> "print(1)"],
    [ok |-> TRUE,  text |-> ""],
    [ok |-> FALSE, text |-> "ConnectionError"],
    [ok |-> FALSE, text |-> "Timeout"],
    [ok |-> FALSE, text |-> "HTTPError"],
    [ok |-> FALSE, text |-> "JSONDecodeError"] }

NoGlResult == [kind |-> "none"]

GlInit ==
  /\ glpc = "idle"
  /\ glGoal = ""
  /\ backend_error = "none"
  /\ glContacts = << >>
  /\ glResult = NoGlResult
  /\ ngl = 0

\* generate_lua is called: the prompt is built
generate_lua(goal) ==
  /\ glpc = "idle"
  /\ ngl < MaxLuaCalls
  /\ ngl' = ngl + 1
  /\ glpc' = "backend"
  /\ glGoal' = goal
  /\ backend_error' = "none"
  /\ glContacts' = << >>
  /\ glResult' = NoGlResult

\* the first try block, with the fallback taken whatever the gateway gave
CallBackendThenAlwaysOllama(answer) ==
  /\ glpc = "backend"
  /\ glContacts' = Append(glContacts, "backend")
  /\ backend_error' = IF answer.ok THEN "none" ELSE answer.text
  /\ glpc' = "ollama"
  /\ glResult' = IF answer.ok
                   THEN [kind |-> "returned", text |-> answer.text,
                         from |-> "backend"]
                   ELSE glResult
  /\ UNCHANGED << glGoal, ngl >>

\* the first try block: return self._call_backend(prompt), or keep its
\* exception as backend_error
CallBackend(answer) ==
  /\ glpc = "backend"
  /\ glContacts' = Append(glContacts, "backend")
  /\ IF answer.ok
       THEN /\ glResult' = [kind |-> "returned", text |-> answer.text,
                            from |-> "backend"]
            /\ glpc' = "done"
            /\ UNCHANGED backend_error
       ELSE /\ backend_error' = answer.text
            /\ glpc' = "ollama"
            /\ UNCHANGED glResult
  /\ UNCHANGED << glGoal, ngl >>

\* the second try block: return self._call_ollama(prompt), or raise the
\* RuntimeError that names both exceptions
CallOllama(answer) ==
  /\ glpc = "ollama"
  /\ glContacts' = Append(glContacts, "ollama")
  /\ glResult' =
       IF answer.ok
         THEN [kind |-> "returned", text |-> answer.text, from |-> "ollama"]
         ELSE [kind |-> "RuntimeError", backend |-> backend_error,
               ollama |-> answer.text]
  /\ glpc' = "done"
  /\ UNCHANGED << glGoal, backend_error, ngl >>

\* the caller has the result
GlReturn ==
  /\ glpc = "done"
  /\ glpc' = "idle"
  /\ UNCHANGED << glGoal, backend_error, glContacts, glResult, ngl >>

\* ------------------------------------------------------------ AntiCheatBypass
\* The rewriter on the text of a script: a text here is the sequence of its
\* characters, newlines among them.

WordChars ==
  {UpperCase[i] : i \in 1..Len(UpperCase)}
    \cup {LowerCase[i] : i \in 1..Len(LowerCase)} \cup Digits \cup {"_"}

\* the regular expression \w
IsWordChar(ch) == ch \in WordChars

\* the regular expression \s
IsWhite(ch) == ch \in {" ", "\t", "\n", "\r", "\f"}

\* self.bypass_patterns, per category: each pattern is a literal text, its
\* \. being a dot
BypassPatterns ==
  [ vm_detection |->
     { << "g", "e", "t", "f", "e", "n", "v" >>,
       << "s", "e", "t", "f", "e", "n", "v" >>,
       << "d", "e", "b", "u", "g", ".", "g", "e", "t", "i", "n", "f", "o" >>,
       << "d", "e", "b", "u", "g", ".", "g", "e", "t", "u", "p", "v", "a",
          "l", "u", "e" >>,
       << "d", "e", "b", "u", "g", ".", "s", "e", "t", "u", "p", "v", "a",
          "l", "u", "e" >>,
       << "d", "e", "b", "u", "g", ".", "g", "e", "t", "l", "o", "c", "a",
          "l" >>,
       << "d", "e", "b", "u", "g", ".", "s", "e", "t", "l", "o", "c", "a",
          "l" >> },
    execution_detection |->
     { << "l", "o", "a", "d", "s", "t", "r", "i", "n", "g" >>,
       << "d", "o", "f", "i", "l", "e" >>,
       << "l", "o", "a", "d", "f", "i", "l", "e" >>,
       << "r", "e", "q", "u", "i", "r", "e" >>,
       << "p", "c", "a", "l", "l" >>,
       << "x", "p", "c", "a", "l", "l" >> },
    memory_detection |->
     { << "c", "o", "l", "l", "e", "c", "t", "g", "a", "r", "b", "a", "g",
          "e" >>,
       << "g", "c", "i", "n", "f", "o" >>,
       << "g", "e", "t", "m", "e", "t", "a", "t", "a", "b", "l", "e" >>,
       << "s", "e", "t", "m", "e", "t", "a", "t", "a", "b", "l", "e" >> },
    io_detection |->
     { << "i", "o", "." >>,
       << "o", "s", "." >>,
       << "f", "i", "l", "e", "." >>,
       << "f", "s", "." >> } ]

BypassCategories ==
  << "vm_detection", "execution_detection", "memory_detection", "io_detection" >>

\* _detect_patterns: the categories with a pattern that re.findall finds in
\* the text, letter case ignored
DetectedCategories(script_content) ==
  {c \in DOMAIN BypassPatterns :
     AnyKeyword(ToLower(script_content), BypassPatterns[c])}

\* the places where re.sub finds \bold\b, letter case ignored
WordMatches(text, old) ==
  {i \in Occurrences(ToLower(text), old) :
     /\ (i = 1 \/ ~IsWordChar(text[i - 1]))
     /\ (i + Len(old) > Len(text) \/ ~IsWordChar(text[i + Len(old)]))}

\* the text with new in place of the len characters at each of the places
RECURSIVE ReplaceAt(_, _, _, _)
ReplaceAt(text, places, len, new) ==
  IF places = {} THEN text
  ELSE LET i == CHOOSE p \in places : \A q \in places : q <= p
       IN  ReplaceAt(SubSeq(text, 1, i - 1) \o new
                       \o SubSeq(text, i + len, Len(text)),
                     places \ {i}, len, new)

\* re.sub(rf'\b{re.escape(old)}\b', new, text, flags=re.IGNORECASE)
SubWord(text, old, new) == ReplaceAt(text, WordMatches(text, old), Len(old), new)

\* the loop over a replacements dict, in its order
RECURSIVE SubWords(_, _)
SubWords(text, replacements) ==
  IF replacements = << >> THEN text
  ELSE SubWords(SubWord(text, Head(replacements)[1], Head(replacements)[2]),
                Tail(replacements))

VmReplacements ==
  << << << "g", "e", "t", "f", "e", "n", "v" >>,
        << "_", "s", "a", "f", "e", "_", "g", "e", "t", "f", "e", "n",
           "v" >> >>,
     << << "s", "e", "t", "f", "e", "n", "v" >>,
        << "_", "s", "a", "f", "e", "_", "s", "e", "t", "f", "e", "n",
           "v" >> >>,
     << << "d", "e", "b", "u", "g", ".", "g", "e", "t", "i", "n", "f",
           "o" >>,
        << "_", "s", "a", "f", "e", "_", "d", "e", "b", "u", "g", "_", "g",
           "e", "t", "i", "n", "f", "o" >> >>,
     << << "d", "e", "b", "u", "g", ".", "g", "e", "t", "u", "p", "v", "a",
           "l", "u", "e" >>,
        << "_", "s", "a", "f", "e", "_", "d", "e", "b", "u", "g", "_", "g",
           "e", "t", "u", "p", "v", "a", "l", "u", "e" >> >>,
     << << "d", "e", "b", "u", "g", ".", "s", "e", "t", "u", "p", "v", "a",
           "l", "u", "e" >>,
        << "_", "s", "a", "f", "e", "_", "d", "e", "b", "u", "g", "_", "s",
           "e", "t", "u", "p", "v", "a", "l", "u", "e" >> >>,
     << << "d", "e", "b", "u", "g", ".", "g", "e", "t", "l", "o", "c", "a",
           "l" >>,
        << "_", "s", "a", "f", "e", "_", "d", "e", "b", "u", "g", "_", "g",
           "e", "t", "l", "o", "c", "a", "l" >> >>,
     << << "d", "e", "b", "u", "g", ".", "s", "e", "t", "l", "o", "c", "a",
           "l" >>,
        << "_", "s", "a", "f", "e", "_", "d", "e", "b", "u", "g", "_", "s",
           "e", "t", "l", "o", "c", "a", "l" >> >> >>

ExecutionReplacements ==
  << << << "l", "o", "a", "d", "s", "t", "r", "i", "n", "g" >>,
        << "_", "s", "a", "f", "e", "_", "l", "o", "a", "d", "s", "t", "r",
           "i", "n", "g" >> >>,
     << << "d", "o", "f", "i", "l", "e" >>,
        << "_", "s", "a", "f", "e", "_", "d", "o", "f", "i", "l", "e" >> >>,
     << << "l", "o", "a", "d", "f", "i", "l", "e" >>,
        << "_", "s", "a", "f", "e", "_", "l", "o", "a", "d", "f", "i", "l",
           "e" >> >>,
     << << "r", "e", "q", "u", "i", "r", "e" >>,
        << "_", "s", "a", "f", "e", "_", "r", "e", "q", "u", "i", "r",
           "e" >> >>,
     << << "p", "c", "a", "l", "l" >>,
        << "_", "s", "a", "f", "e", "_", "p", "c", "a", "l", "l" >> >>,
     << << "x", "p", "c", "a", "l", "l" >>,
        << "_", "s", "a", "f", "e", "_", "x", "p", "c", "a", "l", "l" >> >> >>

MemoryReplacements ==
  << << << "c", "o", "l", "l", "e", "c", "t", "g", "a", "r", "b", "a", "g",
           "e" >>,
        << "_", "s", "a", "f", "e", "_", "c", "o", "l", "l", "e", "c", "t",
           "g", "a", "r", "b", "a", "g", "e" >> >>,
     << << "g", "c", "i", "n", "f", "o" >>,
        << "_", "s", "a", "f", "e", "_", "g", "c", "i", "n", "f", "o" >> >>,
     << << "g", "e", "t", "m", "e", "t", "a", "t", "a", "b", "l", "e" >>,
        << "_", "s", "a", "f", "e", "_", "g", "e", "t", "m", "e", "t", "a",
           "t", "a", "b", "l", "e" >> >>,
     << << "s", "e", "t", "m", "e", "t", "a", "t", "a", "b", "l", "e" >>,
        << "_", "s", "a", "f", "e", "_", "s", "e", "t", "m", "e", "t", "a",
           "t", "a", "b", "l", "e" >> >> >>

\* _generate_safe_debug_functions
SafeDebugFunctions ==
    << "\n", "-", "-", " ", "S", "a", "f", "e", " ", "d", "e", "b", "u",
       "g", " ", "f", "u", "n", "c", "t", "i", "o", "n", " ", "r", "e",
       "p", "l", "a", "c", "e", "m", "e", "n", "t", "s", "\n", "l", "o",
       "c", "a", "l", " ", "f", "u", "n", "c", "t", "i", "o", "n", " ",
       "_", "s", "a", "f", "e", "_", "g", "e", "t", "f", "e", "n", "v",
       "(", "l", "e", "v", "e", "l", ")", "\n", " ", " ", " ", " ", "l",
       "e", "v", "e", "l", " ", "=", " ", "l", "e", "v", "e", "l", " ",
       "o", "r", " ", "1", "\n", " ", " ", " ", " ", "r", "e", "t", "u",
       "r", "n", " ", "{", "\n", " ", " ", " ", " ", " ", " ", " ", " ",
       "s", "c", "r", "i", "p", "t", " ", "=", " ", "{", "N", "a", "m",
       "e", " ", "=", " ", "\"", "S", "c", "r", "i", "p", "t", "\"", "}",
       ",", "\n", " ", " ", " ", " ", " ", " ", " ", " ", "g", "a", "m",
       "e", " ", "=", " ", "{", "N", "a", "m", "e", " ", "=", " ", "\"",
       "G", "a", "m", "e", "\"", "}", ",", "\n", " ", " ", " ", " ", " ",
       " ", " ", " ", "w", "o", "r", "k", "s", "p", "a", "c", "e", " ",
       "=", " ", "{", "N", "a", "m", "e", " ", "=", " ", "\"", "W", "o",
       "r", "k", "s", "p", "a", "c", "e", "\"", "}", "\n", " ", " ", " ",
       " ", "}", "\n", "e", "n", "d", "\n", "\n", "l", "o", "c", "a", "l",
       " ", "f", "u", "n", "c", "t", "i", "o", "n", " ", "_", "s", "a",
       "f", "e", "_", "s", "e", "t", "f", "e", "n", "v", "(", "f", "u",
       "n", "c", ",", " ", "e", "n", "v", ")", "\n", " ", " ", " ", " ",
       "r", "e", "t", "u", "r", "n", " ", "f", "u", "n", "c", "\n", "e",
       "n", "d", "\n", "\n", "l", "o", "c", "a", "l", " ", "f", "u", "n",
       "c", "t", "i", "o", "n", " ", "_", "s", "a", "f", "e", "_", "d",
       "e", "b", "u", "g", "_", "g", "e", "t", "i", "n", "f", "o", "(",
       "t", "h", "r", "e", "a", "d", ",", " ", "w", "h", "a", "t", ",",
       " ", "c", "o", "u", "n", "t", ")", "\n", " ", " ", " ", " ", "r",
       "e", "t", "u", "r", "n", " ", "{", "\n", " ", " ", " ", " ", " ",
       " ", " ", " ", "s", "o", "u", "r", "c", "e", " ", "=", " ", "\"",
       "=", "[", "C", "]", "\"", ",", "\n", " ", " ", " ", " ", " ", " ",
       " ", " ", "s", "h", "o", "r", "t", "_", "s", "r", "c", " ", "=",
       " ", "\"", "=", "[", "C", "]", "\"", ",", "\n", " ", " ", " ", " ",
       " ", " ", " ", " ", "l", "i", "n", "e", "d", "e", "f", "i", "n",
       "e", "d", " ", "=", " ", "0", ",", "\n", " ", " ", " ", " ", " ",
       " ", " ", " ", "l", "a", "s", "t", "l", "i", "n", "e", "d", "e",
       "f", "i", "n", "e", "d", " ", "=", " ", "0", ",", "\n", " ", " ",
       " ", " ", " ", " ", " ", " ", "w", "h", "a", "t", " ", "=", " ",
       "\"", "C", "\"", ",", "\n", " ", " ", " ", " ", " ", " ", " ", " ",
       "c", "u", "r", "r", "e", "n", "t", "l", "i", "n", "e", " ", "=",
       " ", "0", ",", "\n", " ", " ", " ", " ", " ", " ", " ", " ", "n",
       "a", "m", "e", " ", "=", " ", "n", "i", "l", ",", "\n", " ", " ",
       " ", " ", " ", " ", " ", " ", "n", "a", "m", "e", "w", "h", "a",
       "t", " ", "=", " ", "\"", "\"", ",", "\n", " ", " ", " ", " ", " ",
       " ", " ", " ", "i", "s", "t", "a", "i", "l", "c", "a", "l", "l",
       " ", "=", " ", "f", "a", "l", "s", "e", ",", "\n", " ", " ", " ",
       " ", " ", " ", " ", " ", "i", "s", "v", "a", "r", "a", "r", "g",
       " ", "=", " ", "f", "a", "l", "s", "e", ",", "\n", " ", " ", " ",
       " ", " ", " ", " ", " ", "n", "u", "p", "s", " ", "=", " ", "0",
       ",", "\n", " ", " ", " ", " ", " ", " ", " ", " ", "n", "p", "a",
       "r", "a", "m", "s", " ", "=", " ", "0", "\n", " ", " ", " ", " ",
       "}", "\n", "e", "n", "d", "\n", "\n", "l", "o", "c", "a", "l", " ",
       "f", "u", "n", "c", "t", "i", "o", "n", " ", "_", "s", "a", "f",
       "e", "_", "d", "e", "b", "u", "g", "_", "g", "e", "t", "u", "p",
       "v", "a", "l", "u", "e", "(", "f", "u", "n", "c", ",", " ", "i",
       "n", "d", "e", "x", ")", "\n", " ", " ", " ", " ", "r", "e", "t",
       "u", "r", "n", " ", "n", "i", "l", ",", " ", "n", "i", "l", "\n",
       "e", "n", "d", "\n", "\n", "l", "o", "c", "a", "l", " ", "f", "u",
       "n", "c", "t", "i", "o", "n", " ", "_", "s", "a", "f", "e", "_",
       "d", "e", "b", "u", "g", "_", "s", "e", "t", "u", "p", "v", "a",
       "l", "u", "e", "(", "f", "u", "n", "c", ",", " ", "i", "n", "d",
       "e", "x", ",", " ", "v", "a", "l", "u", "e", ")", "\n", " ", " ",
       " ", " ", "r", "e", "t", "u", "r", "n", " ", "f", "a", "l", "s",
       "e", "\n", "e", "n", "d", "\n", "\n", "l", "o", "c", "a", "l", " ",
       "f", "u", "n", "c", "t", "i", "o", "n", " ", "_", "s", "a", "f",
       "e", "_", "d", "e", "b", "u", "g", "_", "g", "e", "t", "l", "o",
       "c", "a", "l", "(", "t", "h", "r", "e", "a", "d", ",", " ", "l",
       "e", "v", "e", "l", ",", " ", "i", "n", "d", "e", "x", ")", "\n",
       " ", " ", " ", " ", "r", "e", "t", "u", "r", "n", " ", "n", "i",
       "l", ",", " ", "n", "i", "l", "\n", "e", "n", "d", "\n", "\n", "l",
       "o", "c", "a", "l", " ", "f", "u", "n", "c", "t", "i", "o", "n",
       " ", "_", "s", "a", "f", "e", "_", "d", "e", "b", "u", "g", "_",
       "s", "e", "t", "l", "o", "c", "a", "l", "(", "t", "h", "r", "e",
       "a", "d", ",", " ", "l", "e", "v", "e", "l", ",", " ", "i", "n",
       "d", "e", "x", ",", " ", "v", "a", "l", "u", "e", ")", "\n", " ",
       " ", " ", " ", "r", "e", "t", "u", "r", "n", " ", "n", "i", "l",
       "\n", "e", "n", "d", "\n" >>

\* _generate_safe_execution_functions
SafeExecutionFunctions ==
    << "\n", "-", "-", " ", "S", "a", "f", "e", " ", "e", "x", "e", "c",
       "u", "t", "i", "o", "n", " ", "f", "u", "n", "c", "t", "i", "o",
       "n", " ", "r", "e", "p", "l", "a", "c", "e", "m", "e", "n", "t",
       "s", "\n", "l", "o", "c", "a", "l", " ", "f", "u", "n", "c", "t",
       "i", "o", "n", " ", "_", "s", "a", "f", "e", "_", "l", "o", "a",
       "d", "s", "t", "r", "i", "n", "g", "(", "c", "h", "u", "n", "k",
       ",", " ", "c", "h", "u", "n", "k", "n", "a", "m", "e", ")", "\n",
       " ", " ", " ", " ", "r", "e", "t", "u", "r", "n", " ", "f", "u",
       "n", "c", "t", "i", "o", "n", "(", ")", " ", "r", "e", "t", "u",
       "r", "n", " ", "n", "i", "l", " ", "e", "n", "d", ",", " ", "n",
       "i", "l", "\n", "e", "n", "d", "\n", "\n", "l", "o", "c", "a", "l",
       " ", "f", "u", "n", "c", "t", "i", "o", "n", " ", "_", "s", "a",
       "f", "e", "_", "d", "o", "f", "i", "l", "e", "(", "f", "i", "l",
       "e", "n", "a", "m", "e", ")", "\n", " ", " ", " ", " ", "r", "e",
       "t", "u", "r", "n", " ", "n", "i", "l", "\n", "e", "n", "d", "\n",
       "\n", "l", "o", "c", "a", "l", " ", "f", "u", "n", "c", "t", "i",
       "o", "n", " ", "_", "s", "a", "f", "e", "_", "l", "o", "a", "d",
       "f", "i", "l", "e", "(", "f", "i", "l", "e", "n", "a", "m", "e",
       ")", "\n", " ", " ", " ", " ", "r", "e", "t", "u", "r", "n", " ",
       "f", "u", "n", "c", "t", "i", "o", "n", "(", ")", " ", "r", "e",
       "t", "u", "r", "n", " ", "n", "i", "l", " ", "e", "n", "d", ",",
       " ", "n", "i", "l", "\n", "e", "n", "d", "\n", "\n", "l", "o", "c",
       "a", "l", " ", "f", "u", "n", "c", "t", "i", "o", "n", " ", "_",
       "s", "a", "f", "e", "_", "r", "e", "q", "u", "i", "r", "e", "(",
       "m", "o", "d", "n", "a", "m", "e", ")", "\n", " ", " ", " ", " ",
       "r", "e", "t", "u", "r", "n", " ", "{", "}", "\n", "e", "n", "d",
       "\n", "\n", "l", "o", "c", "a", "l", " ", "f", "u", "n", "c", "t",
       "i", "o", "n", " ", "_", "s", "a", "f", "e", "_", "p", "c", "a",
       "l", "l", "(", "f", "u", "n", "c", ",", " ", ".", ".", ".", ")",
       "\n", " ", " ", " ", " ", "l", "o", "c", "a", "l", " ", "s", "u",
       "c", "c", "e", "s", "s", ",", " ", "r", "e", "s", "u", "l", "t",
       " ", "=", " ", "p", "c", "a", "l", "l", "(", "f", "u", "n", "c",
       ",", " ", ".", ".", ".", ")", "\n", " ", " ", " ", " ", "r", "e",
       "t", "u", "r", "n", " ", "s", "u", "c", "c", "e", "s", "s", ",",
       " ", "r", "e", "s", "u", "l", "t", "\n", "e", "n", "d", "\n", "\n",
       "l", "o", "c", "a", "l", " ", "f", "u", "n", "c", "t", "i", "o",
       "n", " ", "_", "s", "a", "f", "e", "_", "x", "p", "c", "a", "l",
       "l", "(", "f", "u", "n", "c", ",", " ", "m", "s", "g", "h", ",",
       " ", ".", ".", ".", ")", "\n", " ", " ", " ", " ", "l", "o", "c",
       "a", "l", " ", "s", "u", "c", "c", "e", "s", "s", ",", " ", "r",
       "e", "s", "u", "l", "t", " ", "=", " ", "p", "c", "a", "l", "l",
       "(", "f", "u", "n", "c", ",", " ", ".", ".", ".", ")", "\n", " ",
       " ", " ", " ", "r", "e", "t", "u", "r", "n", " ", "s", "u", "c",
       "c", "e", "s", "s", ",", " ", "r", "e", "s", "u", "l", "t", "\n",
       "e", "n", "d", "\n" >>

\* _generate_safe_memory_functions
SafeMemoryFunctions ==
    << "\n", "-", "-", " ", "S", "a", "f", "e", " ", "m", "e", "m", "o",
       "r", "y", " ", "f", "u", "n", "c", "t", "i", "o", "n", " ", "r",
       "e", "p", "l", "a", "c", "e", "m", "e", "n", "t", "s", "\n", "l",
       "o", "c", "a", "l", " ", "f", "u", "n", "c", "t", "i", "o", "n",
       " ", "_", "s", "a", "f", "e", "_", "c", "o", "l", "l", "e", "c",
       "t", "g", "a", "r", "b", "a", "g", "e", "(", "o", "p", "t", ",",
       " ", "a", "r", "g", ")", "\n", " ", " ", " ", " ", "r", "e", "t",
       "u", "r", "n", " ", "0", "\n", "e", "n", "d", "\n", "\n", "l", "o",
       "c", "a", "l", " ", "f", "u", "n", "c", "t", "i", "o", "n", " ",
       "_", "s", "a", "f", "e", "_", "g", "c", "i", "n", "f", "o", "(",
       ")", "\n", " ", " ", " ", " ", "r", "e", "t", "u", "r", "n", " ",
       "0", ",", " ", "0", "\n", "e", "n", "d", "\n", "\n", "l", "o", "c",
       "a", "l", " ", "f", "u", "n", "c", "t", "i", "o", "n", " ", "_",
       "s", "a", "f", "e", "_", "g", "e", "t", "m", "e", "t", "a", "t",
       "a", "b", "l", "e", "(", "o", "b", "j", ")", "\n", " ", " ", " ",
       " ", "r", "e", "t", "u", "r", "n", " ", "n", "i", "l", "\n", "e",
       "n", "d", "\n", "\n", "l", "o", "c", "a", "l", " ", "f", "u", "n",
       "c", "t", "i", "o", "n", " ", "_", "s", "a", "f", "e", "_", "s",
       "e", "t", "m", "e", "t", "a", "t", "a", "b", "l", "e", "(", "o",
       "b", "j", ",", " ", "m", "t", ")", "\n", " ", " ", " ", " ", "r",
       "e", "t", "u", "r", "n", " ", "o", "b", "j", "\n", "e", "n", "d",
       "\n" >>

\* _bypass_vm_detection
BypassVmDetection(script_content) ==
  SafeDebugFunctions \o << "\n" >> \o SubWords(script_content, VmReplacements)

\* _bypass_execution_detection
BypassExecutionDetection(script_content) ==
  SafeExecutionFunctions \o << "\n" >>
    \o SubWords(script_content, ExecutionReplacements)

\* _bypass_memory_detection
BypassMemoryDetection(script_content) ==
  SafeMemoryFunctions \o << "\n" >>
    \o SubWords(script_content, MemoryReplacements)

\* io_patterns of _bypass_io_detection: the text before the dot
IoPrefixes ==
  << << "i", "o" >>,
     << "o", "s" >>,
     << "f", "i", "l", "e" >>,
     << "f", "s" >> >>

BlockedComment ==
    << "-", "-", " ", "B", "L", "O", "C", "K", "E", "D", ":", " ", "I",
       "/", "O", " ", "o", "p", "e", "r", "a", "t", "i", "o", "n", " ",
       "n", "o", "t", " ", "a", "l", "l", "o", "w", "e", "d", " ", "i",
       "n", " ", "s", "a", "n", "d", "b", "o", "x" >>

\* the last place of the longest run of characters of the set that starts at
\* place j, j - 1 when the character at j is not of the set
RunEnd(text, j, chars) ==
  LET stops == {k \in j..Len(text) : text[k] \notin chars}
  IN  IF stops = {} THEN Len(text)
      ELSE (CHOOSE k \in stops : \A l \in stops : k <= l) - 1

IdentStart == WordChars \ Digits

\* where a match of prefix\.[a-zA-Z_][a-zA-Z0-9_]*\s*\( that starts at place i
\* ends, 0 when there is none
IoMatchEnd(text, prefix, i) ==
  LET first == i + Len(prefix) + 1
  IN  IF first > Len(text) \/ text[first] \notin IdentStart THEN 0
      ELSE LET paren == RunEnd(text, RunEnd(text, first, WordChars) + 1,
                               {" ", "\t", "\n", "\r", "\f"}) + 1
           IN  IF paren <= Len(text) /\ text[paren] = "(" THEN paren ELSE 0

\* re.sub finds its matches from the left, each after the end of the one
\* before: ends maps the places where a match can start to where it ends
RECURSIVE LeftmostMatches(_, _)
LeftmostMatches(ends, from) ==
  LET later == {i \in DOMAIN ends : i >= from}
  IN  IF later = {} THEN {}
      ELSE LET i == CHOOSE p \in later : \A q \in later : p <= q
           IN  {i} \cup LeftmostMatches(ends, ends[i] + 1)

\* the text with new in place of the characters first[i]..ends[i] of each
\* match i
RECURSIVE ReplaceSpans(_, _, _, _, _)
ReplaceSpans(text, matches, first, ends, new) ==
  IF matches = {} THEN text
  ELSE LET i == CHOOSE p \in matches : \A q \in matches : q <= p
       IN  ReplaceSpans(SubSeq(text, 1, first[i] - 1) \o new
                          \o SubSeq(text, ends[i] + 1, Len(text)),
                        matches \ {i}, first, ends, new)

\* re.sub(pattern, '-- BLOCKED: ...', modified, flags=re.IGNORECASE) for one
\* of the io_patterns
SubIo(text, prefix) ==
  LET starts == {i \in Occurrences(ToLower(text), prefix \o << "." >>) :
                   IoMatchEnd(text, prefix, i) # 0}
      ends   == [i \in starts |-> IoMatchEnd(text, prefix, i)]
  IN  ReplaceSpans(text, LeftmostMatches(ends, 1), [i \in starts |-> i], ends,
                   BlockedComment)

\* _bypass_io_detection
RECURSIVE BypassIoDetection(_, _)
BypassIoDetection(script_content, prefixes) ==
  IF prefixes = << >> THEN script_content
  ELSE BypassIoDetection(SubIo(script_content, Head(prefixes)), Tail(prefixes))

\* self.bypass_methods[pattern_type](modified_script, patterns)
BypassMethod(pattern_type, modified_script) ==
  CASE pattern_type = "vm_detection" -> BypassVmDetection(modified_script)
    [] pattern_type = "execution_detection" ->
         BypassExecutionDetection(modified_script)
    [] pattern_type = "memory_detection" -> BypassMemoryDetection(modified_script)
    [] pattern_type = "io_detection" ->
         BypassIoDetection(modified_script, IoPrefixes)

\* the loop of apply_bypass over the detected categories, which are in the
\* order of self.bypass_patterns
RECURSIVE BypassMethods(_, _, _)
BypassMethods(modified_script, detected, n) ==
  IF n = 0 THEN modified_script
  ELSE LET before == BypassMethods(modified_script, detected, n - 1)
       IN  IF BypassCategories[n] \in detected
             THEN BypassMethod(BypassCategories[n], before) ELSE before

\* obvious_patterns of _should_obfuscate
ObviousPatterns ==
  { << "g", "e", "t", "f", "e", "n", "v" >>,
    << "s", "e", "t", "f", "e", "n", "v" >>,
    << "d", "e", "b", "u", "g" >>,
    << "l", "o", "a", "d", "s", "t", "r", "i", "n", "g" >>,
    << "d", "o", "f", "i", "l", "e" >> }

\* _should_obfuscate
ShouldObfuscate(script_content) ==
  AnyKeyword(ToLower(script_content), ObviousPatterns)

\* the names obfuscate_var leaves alone
KeptNames ==
  { << "l", "o", "c", "a", "l" >>,
    << "f", "u", "n", "c", "t", "i", "o", "n" >>,
    << "i", "f" >>,
    << "t", "h", "e", "n" >>,
    << "e", "l", "s", "e" >>,
    << "e", "n", "d" >>,
    << "f", "o", "r" >>,
    << "w", "h", "i", "l", "e" >>,
    << "d", "o" >>,
    << "r", "e", "p", "e", "a", "t" >>,
    << "u", "n", "t", "i", "l" >>,
    << "b", "r", "e", "a", "k" >>,
    << "r", "e", "t", "u", "r", "n" >>,
    << "g", "a", "m", "e" >>,
    << "w", "o", "r", "k", "s", "p", "a", "c", "e" >>,
    << "s", "c", "r", "i", "p", "t" >> }

LocalWord == << "l", "o", "c", "a", "l" >>

\* where a match of \b(local\s+)([a-zA-Z_][a-zA-Z0-9_]*)\b that starts at
\* place i has its name: << first, last >>, << 0, 0 >> when there is none
LocalName(text, i) ==
  LET white == RunEnd(text, i + 5, {" ", "\t", "\n", "\r", "\f"})
  IN  IF \/ i > 1 /\ text[i - 1] \in WordChars
         \/ white < i + 5
         \/ white + 1 > Len(text)
         \/ text[white + 1] \notin IdentStart
        THEN << 0, 0 >>
        ELSE << white + 1, RunEnd(text, white + 1, WordChars) >>

\* text.split('\n')
SplitNl(text) ==
  LET nls == {i \in 1..Len(text) : text[i] = "\n"}
      nl(k) == IF k = 0 THEN 0
               ELSE IF k > Cardinality(nls) THEN Len(text) + 1
               ELSE CHOOSE p \in nls : Cardinality({q \in nls : q < p}) = k - 1
  IN  [k \in 1..(Cardinality(nls) + 1) |->
         SubSeq(text, nl(k - 1) + 1, nl(k) - 1)]

\* '\n'.join(lines)
RECURSIVE JoinNl(_)
JoinNl(lines) ==
  IF lines = << >> THEN << >>
  ELSE IF Len(lines) = 1 THEN lines[1]
  ELSE lines[1] \o << "\n" >> \o JoinNl(Tail(lines))

\* lines.insert(pos, line), pos counted from 0
InsertLine(lines, pos, line) ==
  SubSeq(lines, 1, pos) \o << line >> \o SubSeq(lines, pos + 1, Len(lines))

\* the names random.choices can draw for a renamed variable, and the comment
\* lines: two of each
ObfuscatedNames ==
  { << "_", "q", "z", "j", "x", "k", "v", "w", "p" >>,
    << "_", "m", "b", "t", "r", "l", "h", "y", "u" >> }

CommentLines ==
  { << "-", "-", " ", "k", "3", "J", "x", "9", "Q", "m", "Z", "7", "p",
       "L", "w", "2", "R", "t", "Y", "8", "b", "N", "c" >>,
    << "-", "-", " ", "v", "h", "q", "z", "m", "x", "k", "w", "j", "p",
       "l", "r", "t", "y", "b" >> }

\* the places random.randint can draw for a comment line
CommentPositions == {0, 3}

\* _apply_obfuscation, with the name and the comments and places drawn
ApplyObfuscation(script_content, name, comments, positions) ==
  LET starts == {i \in Occurrences(script_content, LocalWord) :
                   LocalName(script_content, i) # << 0, 0 >>}
      first  == [i \in starts |-> LocalName(script_content, i)[1]]
      ends   == [i \in starts |-> LocalName(script_content, i)[2]]
      renamed == {i \in LeftmostMatches(ends, 1) :
                    ToLower(SubSeq(script_content, first[i], ends[i]))
                      \notin KeptNames}
      obfuscated == ReplaceSpans(script_content, renamed, first, ends, name)
      lines == SplitNl(obfuscated)
  IN  IF Len(lines) > 10
        THEN JoinNl(InsertLine(InsertLine(InsertLine(lines,
               positions[1], comments[1]), positions[2], comments[2]),
               positions[3], comments[3]))
        ELSE obfuscated

\* _indent_script
IndentScript(script_content) ==
  LET lines == SplitNl(script_content)
  IN  JoinNl([k \in 1..Len(lines) |->
        IF \E j \in 1..Len(lines[k]) :
             lines[k][j] \notin {" ", "\t", "\n", "\r", "\f"}
          THEN << " ", " ", " ", " ", " ", " ", " ", " " >> \o lines[k]
          ELSE << >>])

\* the parts of the wrapper of _add_safety_wrapper around the time, the hash
\* and the script
WrapperHeader ==
    << "\n", "-", "-", " ", "C", "I", "A", " ", "R", "o", "b", "l", "o",
       "x", " ", "E", "x", "e", "c", "u", "t", "o", "r", " ", "S", "a",
       "f", "e", "t", "y", " ", "W", "r", "a", "p", "p", "e", "r", "\n",
       "-", "-", " ", "G", "e", "n", "e", "r", "a", "t", "e", "d", ":",
       " " >>

WrapperHash ==
    << "\n", "-", "-", " ", "S", "c", "r", "i", "p", "t", " ", "H", "a",
       "s", "h", ":", " " >>

WrapperOpen ==
    << "\n", "\n", "l", "o", "c", "a", "l", " ", "f", "u", "n", "c", "t",
       "i", "o", "n", " ", "_", "s", "a", "f", "e", "_", "e", "x", "e",
       "c", "u", "t", "e", "(", ")", "\n", " ", " ", " ", " ", "l", "o",
       "c", "a", "l", " ", "s", "u", "c", "c", "e", "s", "s", ",", " ",
       "r", "e", "s", "u", "l", "t", " ", "=", " ", "p", "c", "a", "l",
       "l", "(", "f", "u", "n", "c", "t", "i", "o", "n", "(", ")", "\n" >>

WrapperClose ==
    << "\n", " ", " ", " ", " ", "e", "n", "d", ")", "\n", " ", " ", " ",
       " ", "\n", " ", " ", " ", " ", "i", "f", " ", "n", "o", "t", " ",
       "s", "u", "c", "c", "e", "s", "s", " ", "t", "h", "e", "n", "\n",
       " ", " ", " ", " ", " ", " ", " ", " ", "w", "a", "r", "n", "(",
       "\"", "S", "c", "r", "i", "p", "t", " ", "e", "x", "e", "c", "u",
       "t", "i", "o", "n", " ", "e", "r", "r", "o", "r", ":", " ", "\"",
       " ", ".", ".", " ", "t", "o", "s", "t", "r", "i", "n", "g", "(",
       "r", "e", "s", "u", "l", "t", ")", ")", "\n", " ", " ", " ", " ",
       " ", " ", " ", " ", "r", "e", "t", "u", "r", "n", " ", "f", "a",
       "l", "s", "e", "\n", " ", " ", " ", " ", "e", "n", "d", "\n", " ",
       " ", " ", " ", "\n", " ", " ", " ", " ", "r", "e", "t", "u", "r",
       "n", " ", "t", "r", "u", "e", "\n", "e", "n", "d", "\n", "\n", "-",
       "-", " ", "E", "x", "e", "c", "u", "t", "e", " ", "w", "i", "t",
       "h", " ", "e", "r", "r", "o", "r", " ", "h", "a", "n", "d", "l",
       "i", "n", "g", "\n", "l", "o", "c", "a", "l", " ", "e", "x", "e",
       "c", "u", "t", "i", "o", "n", "_", "s", "u", "c", "c", "e", "s",
       "s", " ", "=", " ", "_", "s", "a", "f", "e", "_", "e", "x", "e",
       "c", "u", "t", "e", "(", ")", "\n", "i", "f", " ", "n", "o", "t",
       " ", "e", "x", "e", "c", "u", "t", "i", "o", "n", "_", "s", "u",
       "c", "c", "e", "s", "s", " ", "t", "h", "e", "n", "\n", " ", " ",
       " ", " ", "w", "a", "r", "n", "(", "\"", "S", "c", "r", "i", "p",
       "t", " ", "e", "x", "e", "c", "u", "t", "i", "o", "n", " ", "f",
       "a", "i", "l", "e", "d", "\"", ")", "\n", "e", "n", "d", "\n" >>

\* "-- CIA Roblox Executor Safety Wrapper"
HeaderMarker ==
    << "-", "-", " ", "C", "I", "A", " ", "R", "o", "b", "l", "o", "x",
       " ", "E", "x", "e", "c", "u", "t", "o", "r", " ", "S", "a", "f",
       "e", "t", "y", " ", "W", "r", "a", "p", "p", "e", "r" >>

\* _get_timestamp and _get_script_hash: a time of day and sixteen hexadecimal
\* digits
Timestamp ==
    << "2", "0", "2", "6", "-", "1", "1", "-", "0", "1", " ", "0", "8",
       ":", "4", "2", ":", "3", "9" >>

ScriptHash ==
    << "0", "1", "2", "3", "4", "5", "6", "7", "8", "9", "a", "b", "c",
       "d", "e", "f" >>

\* _add_safety_wrapper
AddSafetyWrapper(script_content) ==
  WrapperHeader \o Timestamp \o WrapperHash \o ScriptHash \o WrapperOpen
    \o IndentScript(script_content) \o WrapperClose

\* the scripts handed to apply_bypass
BypassScripts ==
  { << "l", "o", "c", "a", "l", " ", "i", " ", "=", " ", "d", "e", "b",
       "u", "g", ".", "g", "e", "t", "i", "n", "f", "o", "(", "1", ")",
       "\n", "p", "r", "i", "n", "t", "(", "i", ")" >>,
    << "p", "r", "i", "n", "t", "(", "g", "e", "t", "f", "e", "n", "v",
       "(", "0", ")", ")" >>,
    << "p", "r", "i", "n", "t", "(", "1", ")" >>,
    << "x", " ", "=", " ", "p", "c", "a", "l", "l", "(", "f", ")" >>,
    << "i", "o", ".", "w", "r", "i", "t", "e", "(", "\"", "a", "\"", ")" >>,
    << "s", "e", "t", "m", "e", "t", "a", "t", "a", "b", "l", "e", "(",
       "t", ",", " ", "m", ")" >>,
    << "D", "E", "B", "U", "G", ".", "G", "E", "T", "I", "N", "F", "O",
       "(", "1", ")" >>,
    << "l", "o", "c", "a", "l", " ", "t", " ", "=", " ", "d", "e", "b",
       "u", "g", ".", "g", "e", "t", "l", "o", "c", "a", "l", "(", "1",
       ",", " ", "1", ")", "\n", "r", "e", "q", "u", "i", "r", "e", "(",
       "\"", "m", "\"", ")" >> }

VARIABLES
  bppc,          \* where the call of apply_bypass stands
  bpScript,      \* script_content, the text handed in
  bpDetected,    \* the categories of detected_patterns
  bpModified,    \* modified_script, at the end the text returned
  bpFound,       \* the categories detect_anti_cheat finds in the returned text
  nbp            \* calls made

bypassVars == << bppc, bpScript, bpDetected, bpModified, bpFound, nbp >>

MaxBypassCalls == 2

NotDetected == {"not detected"}

BypassInit ==
  /\ bppc = "idle"
  /\ bpScript = << >>
  /\ bpDetected = {}
  /\ bpModified = << >>
  /\ bpFound = NotDetected
  /\ nbp = 0

\* apply_bypass up to the loop: with nothing detected the script is returned
\* as it is
apply_bypass(script_content) ==
  /\ bppc = "idle"
  /\ nbp < MaxBypassCalls
  /\ nbp' = nbp + 1
  /\ bpScript' = script_content
  /\ bpModified' = script_content
  /\ bpDetected' = DetectedCategories(script_content)
  /\ bpFound' = NotDetected
  /\ bppc' = IF DetectedCategories(script_content) = {} THEN "returned"
             ELSE "detected"

\* the loop over detected_patterns
BypassLoop ==
  /\ bppc = "detected"
  /\ bpModified' = BypassMethods(bpModified, bpDetected, Len(BypassCategories))
  /\ bppc' = "bypassed"
  /\ UNCHANGED << bpScript, bpDetected, bpFound, nbp >>

\* if self._should_obfuscate(script_content): _apply_obfuscation
BypassObfuscate(name, comments, positions) ==
  /\ bppc = "bypassed"
  /\ ShouldObfuscate(bpScript)
  /\ bpModified' = ApplyObfuscation(bpModified, name, comments, positions)
  /\ bppc' = "obfuscated"
  /\ UNCHANGED << bpScript, bpDetected, bpFound, nbp >>

\* _add_safety_wrapper and the return
BypassWrap ==
  /\ \/ bppc = "obfuscated"
     \/ bppc = "bypassed" /\ ~ShouldObfuscate(bpScript)
  /\ bpModified' = AddSafetyWrapper(bpModified)
  /\ bppc' = "returned"
  /\ UNCHANGED << bpScript, bpDetected, bpFound, nbp >>

\* detect_anti_cheat on the text apply_bypass returned
detect_anti_cheat ==
  /\ bppc = "returned"
  /\ bpFound' = DetectedCategories(bpModified)
  /\ bppc' = "checked"
  /\ UNCHANGED << bpScript, bpDetected, bpModified, nbp >>

\* the caller goes on to its next script
BypassDone ==
  /\ bppc = "checked"
  /\ bppc' = "idle"
  /\ UNCHANGED << bpScript, bpDetected, bpModified, bpFound, nbp >>

\* ------------------------------------------------------------ ScriptValidator
\* The regular expressions of the validator. A pattern is a sequence of
\* elements, each a set of characters with the number of times it may repeat;
\* every search of the validator ignores letter case.

UpperChar(ch) ==
  IF \E i \in 1..Len(LowerCase) : LowerCase[i] = ch
    THEN UpperCase[CHOOSE i \in 1..Len(LowerCase) : LowerCase[i] = ch]
    ELSE ch

BothCases(ch) == {LowerChar(ch), UpperChar(ch)}

\* \s
White == {" ", "\t", "\n", "\r", "\f"}

\* [0-9a-fA-F]
HexDigits ==
  Digits \cup {"a", "b", "c", "d", "e", "f", "A", "B", "C", "D", "E", "F"}

\* the characters of s, one after the other
Lit(s) ==
  [i \in 1..Len(s) |->
     [cls |-> BothCases(s[i]), lo |-> 1, hi |-> 1, open |-> FALSE]]

\* lo to hi characters of the set
Rep(cls, lo, hi) == << [cls |-> cls, lo |-> lo, hi |-> hi, open |-> FALSE] >>

\* lo or more characters of the set: * and + and {n,}
AtLeast(cls, lo) == << [cls |-> cls, lo |-> lo, hi |-> lo, open |-> TRUE] >>

\* where a match of one element that starts at place p can end: the places
\* after its last character
ElemEnds(e, text, p) ==
  {q \in (p + e.lo)..(IF e.open \/ p + e.hi > Len(text) + 1
                        THEN Len(text) + 1 ELSE p + e.hi) :
     \A k \in p..(q - 1) : text[k] \in e.cls}

\* where a match of the elements k.. of a pattern can end when the elements
\* before k ended at a place of the set
RECURSIVE MatchEnds(_, _, _, _)
MatchEnds(pattern, text, places, k) ==
  IF k > Len(pattern) \/ places = {} THEN places
  ELSE MatchEnds(pattern, text,
                 UNION {ElemEnds(pattern[k], text, p) : p \in places}, k + 1)

\* re.search(pattern, text, re.IGNORECASE)
Search(pattern, text) ==
  MatchEnds(pattern, text, 1..(Len(text) + 1), 1) # {}

\* len(re.findall(pattern, text, re.IGNORECASE)) for a pattern given as its
\* alternatives: the matches are taken from the left, each as long as it can
\* be, each after the end of the one before
CountMatches(alternatives, text) ==
  LET endsAt(i) == UNION {MatchEnds(alternatives[a], text, {i}, 1) :
                            a \in 1..Len(alternatives)}
      starts == {i \in 1..Len(text) : endsAt(i) # {}}
      ends   == [i \in starts |->
                   (CHOOSE q \in endsAt(i) : \A r \in endsAt(i) : r <= q) - 1]
  IN  Cardinality(LeftmostMatches(ends, 1))

\* self.dangerous_patterns
DangerousPatterns ==
    [ system_access |->
      << Lit(<< "o", "s", ".", "e", "x", "e", "c", "u", "t", "e" >>) \o
           AtLeast(White, 0) \o Lit(<< "(" >>),
         Lit(<< "i", "o", ".", "p", "o", "p", "e", "n" >>) \o
           AtLeast(White, 0) \o Lit(<< "(" >>),
         Lit(<< "i", "o", ".", "o", "p", "e", "n" >>) \o AtLeast(White, 0) \o
           Lit(<< "(" >>),
         Lit(<< "i", "o", ".", "c", "l", "o", "s", "e" >>) \o
           AtLeast(White, 0) \o Lit(<< "(" >>),
         Lit(<< "i", "o", ".", "r", "e", "a", "d" >>) \o AtLeast(White, 0) \o
           Lit(<< "(" >>),
         Lit(<< "i", "o", ".", "w", "r", "i", "t", "e" >>) \o
           AtLeast(White, 0) \o Lit(<< "(" >>),
         Lit(<< "o", "s", ".", "r", "e", "m", "o", "v", "e" >>) \o
           AtLeast(White, 0) \o Lit(<< "(" >>),
         Lit(<< "o", "s", ".", "r", "e", "n", "a", "m", "e" >>) \o
           AtLeast(White, 0) \o Lit(<< "(" >>),
         Lit(<< "o", "s", ".", "t", "m", "p", "n", "a", "m", "e" >>) \o
           AtLeast(White, 0) \o Lit(<< "(" >>) >>,
    code_execution |->
      << Lit(<< "l", "o", "a", "d", "s", "t", "r", "i", "n", "g" >>) \o
           AtLeast(White, 0) \o Lit(<< "(" >>),
         Lit(<< "l", "o", "a", "d", "f", "i", "l", "e" >>) \o
           AtLeast(White, 0) \o Lit(<< "(" >>),
         Lit(<< "d", "o", "f", "i", "l", "e" >>) \o AtLeast(White, 0) \o
           Lit(<< "(" >>),
         Lit(<< "r", "e", "q", "u", "i", "r", "e" >>) \o AtLeast(White, 0) \o
           Lit(<< "(" >>),
         Lit(<< "p", "a", "c", "k", "a", "g", "e", ".", "l", "o", "a", "d", "l", "i", "b" >>) \o
           AtLeast(White, 0) \o Lit(<< "(" >>) >>,
    debug_access |->
      << Lit(<< "d", "e", "b", "u", "g", ".", "g", "e", "t", "i", "n", "f", "o" >>) \o
           AtLeast(White, 0) \o Lit(<< "(" >>),
         Lit(<< "d", "e", "b", "u", "g", ".", "g", "e", "t", "l", "o", "c", "a", "l" >>) \o
           AtLeast(White, 0) \o Lit(<< "(" >>),
         Lit(<< "d", "e", "b", "u", "g", ".", "g", "e", "t", "u", "p", "v", "a", "l", "u", "e" >>) \o
           AtLeast(White, 0) \o Lit(<< "(" >>),
         Lit(<< "d", "e", "b", "u", "g", ".", "s", "e", "t", "l", "o", "c", "a", "l" >>) \o
           AtLeast(White, 0) \o Lit(<< "(" >>),
         Lit(<< "d", "e", "b", "u", "g", ".", "s", "e", "t", "u", "p", "v", "a", "l", "u", "e" >>) \o
           AtLeast(White, 0) \o Lit(<< "(" >>),
         Lit(<< "d", "e", "b", "u", "g", ".", "t", "r", "a", "c", "e", "b", "a", "c", "k" >>) \o
           AtLeast(White, 0) \o Lit(<< "(" >>) >>,
    memory_manipulation |->
      << Lit(<< "c", "o", "l", "l", "e", "c", "t", "g", "a", "r", "b", "a", "g", "e" >>) \o
           AtLeast(White, 0) \o Lit(<< "(" >>),
         Lit(<< "c", "o", "r", "o", "u", "t", "i", "n", "e", ".", "c", "r", "e", "a", "t", "e" >>) \o
           AtLeast(White, 0) \o Lit(<< "(" >>),
         Lit(<< "c", "o", "r", "o", "u", "t", "i", "n", "e", ".", "r", "e", "s", "u", "m", "e" >>) \o
           AtLeast(White, 0) \o Lit(<< "(" >>),
         Lit(<< "c", "o", "r", "o", "u", "t", "i", "n", "e", ".", "y", "i", "e", "l", "d" >>) \o
           AtLeast(White, 0) \o Lit(<< "(" >>),
         Lit(<< "j", "i", "t", "." >>) >>,
    network_access |->
      << Lit(<< "h", "t", "t", "p" >>) \o AtLeast(White, 0) \o Lit(<< "(" >>),
         Lit(<< "h", "t", "t", "p", "s" >>) \o AtLeast(White, 0) \o
           Lit(<< "(" >>),
         Lit(<< "r", "e", "q", "u", "e", "s", "t" >>) \o AtLeast(White, 0) \o
           Lit(<< "(" >>),
         Lit(<< "f", "e", "t", "c", "h" >>) \o AtLeast(White, 0) \o
           Lit(<< "(" >>),
         Lit(<< "w", "e", "b", "h", "o", "o", "k" >>) \o AtLeast(White, 0) \o
           Lit(<< "(" >>) >> ]

\* self.suspicious_patterns
SuspiciousPatterns ==
    [ infinite_loops |->
      << Lit(<< "w", "h", "i", "l", "e" >>) \o AtLeast(White, 1) \o
           Lit(<< "t", "r", "u", "e" >>) \o AtLeast(White, 1) \o
           Lit(<< "d", "o" >>),
         Lit(<< "f", "o", "r" >>) \o AtLeast(White, 1) \o
           AtLeast(WordChars, 1) \o AtLeast(White, 0) \o Lit(<< "=" >>) \o
           AtLeast(White, 0) \o Lit(<< "1" >>) \o AtLeast(White, 0) \o
           Lit(<< "," >>) \o AtLeast(White, 0) \o
           Lit(<< "9", "9", "9", "9", "9", "9" >>) \o AtLeast(White, 1) \o
           Lit(<< "d", "o" >>),
         Lit(<< "r", "e", "p", "e", "a", "t" >>) \o AtLeast(White, 1) \o
           Lit(<< "u", "n", "t", "i", "l" >>) \o AtLeast(White, 1) \o
           Lit(<< "f", "a", "l", "s", "e" >>),
         Lit(<< "w", "h", "i", "l", "e" >>) \o AtLeast(White, 1) \o
           Lit(<< "1" >>) \o AtLeast(White, 0) \o Lit(<< "=", "=" >>) \o
           AtLeast(White, 0) \o Lit(<< "1" >>) \o AtLeast(White, 1) \o
           Lit(<< "d", "o" >>) >>,
    excessive_iterations |->
      << Lit(<< "f", "o", "r" >>) \o AtLeast(White, 1) \o
           AtLeast(WordChars, 1) \o AtLeast(White, 0) \o Lit(<< "=" >>) \o
           AtLeast(White, 0) \o Lit(<< "1" >>) \o AtLeast(White, 0) \o
           Lit(<< "," >>) \o AtLeast(White, 0) \o AtLeast(Digits, 6) \o
           AtLeast(White, 1) \o Lit(<< "d", "o" >>),
         Lit(<< "f", "o", "r" >>) \o AtLeast(White, 1) \o
           AtLeast(WordChars, 1) \o AtLeast(White, 0) \o Lit(<< "=" >>) \o
           AtLeast(White, 0) \o Lit(<< "1" >>) \o AtLeast(White, 0) \o
           Lit(<< "," >>) \o AtLeast(White, 0) \o
           Lit(<< "m", "a", "t", "h", ".", "h", "u", "g", "e" >>) \o
           AtLeast(White, 1) \o Lit(<< "d", "o" >>) >>,
    suspicious_strings |->
      << Lit(<< "e", "x", "p", "l", "o", "i", "t" >>),
         Lit(<< "h", "a", "c", "k" >>),
         Lit(<< "c", "h", "e", "a", "t" >>),
         Lit(<< "b", "y", "p", "a", "s", "s" >>),
         Lit(<< "i", "n", "j", "e", "c", "t" >>),
         Lit(<< "m", "a", "l", "w", "a", "r", "e" >>),
         Lit(<< "v", "i", "r", "u", "s" >>),
         Lit(<< "b", "a", "c", "k", "d", "o", "o", "r" >>) >>,
    obfuscation |->
      << Lit(<< "s", "t", "r", "i", "n", "g", ".", "c", "h", "a", "r" >>) \o
           AtLeast(White, 0) \o Lit(<< "(" >>) \o AtLeast(White, 0) \o
           AtLeast(Digits, 1) \o AtLeast(White, 0) \o Lit(<< ")" >>),
         Lit(<< "s", "t", "r", "i", "n", "g", ".", "b", "y", "t", "e" >>) \o
           AtLeast(White, 0) \o Lit(<< "(" >>),
         Lit(<< "\\", "x" >>) \o Rep(HexDigits, 2, 2),
         Lit(<< "\\", "u" >>) \o Rep(HexDigits, 4, 4) >> ]

DangerousCategories ==
  << "system_access", "code_execution", "debug_access", "memory_manipulation", "network_access" >>

SuspiciousCategories ==
  << "infinite_loops", "excessive_iterations", "suspicious_strings", "obfuscation" >>

\* self.validation_rules
ValidationRules ==
  [ max_script_length |-> 50000, max_function_count |-> 50,
    max_variable_count |-> 100, max_loop_count |-> 10,
    max_comment_ratio_tenths |-> 8, min_code_lines |-> 3 ]

\* r'function\s+\w+', r'local\s+\w+', r'for\s+|while\s+|repeat\s+'
FunctionPattern == << Lit(<< "f", "u", "n", "c", "t", "i", "o", "n" >>) \o
       AtLeast(White, 1) \o AtLeast(WordChars, 1) >>

LocalPattern == << Lit(<< "l", "o", "c", "a", "l" >>) \o AtLeast(White, 1) \o
       AtLeast(WordChars, 1) >>

LoopPattern ==
  << Lit(<< "f", "o", "r" >>) \o AtLeast(White, 1),
     Lit(<< "w", "h", "i", "l", "e" >>) \o AtLeast(White, 1),
     Lit(<< "r", "e", "p", "e", "a", "t" >>) \o AtLeast(White, 1) >>

\* str.strip() of a text
Trim(s) ==
  LET inked == {i \in 1..Len(s) : s[i] \notin White}
  IN  IF inked = {} THEN << >>
      ELSE SubSeq(s, CHOOSE i \in inked : \A j \in inked : i <= j,
                     CHOOSE i \in inked : \A j \in inked : j <= i)

\* delimiters = {'(': ')', '[': ']', '{': '}'}
Delimiters == [c \in {"(", "[", "{"} |->
                 CASE c = "(" -> ")" [] c = "[" -> "]" [] c = "{" -> "}"]

Closers == {Delimiters[c] : c \in DOMAIN Delimiters}

\* the loop of _check_balanced_delimiters with a closing delimiter taking
\* off the last opening one of whatever kind
RECURSIVE BalancedFromAnyKind(_, _, _)
BalancedFromAnyKind(content, i, stack) ==
  IF i > Len(content) THEN Len(stack) = 0
  ELSE IF content[i] \in DOMAIN Delimiters
    THEN BalancedFromAnyKind(content, i + 1, Append(stack, content[i]))
  ELSE IF content[i] \in Closers
    THEN IF stack = << >> THEN FALSE
         ELSE BalancedFromAnyKind(content, i + 1,
                                  SubSeq(stack, 1, Len(stack) - 1))
  ELSE BalancedFromAnyKind(content, i + 1, stack)

\* the loop of ScriptValidator._check_balanced_delimiters from character i on
RECURSIVE BalancedFrom(_, _, _)
BalancedFrom(content, i, stack) ==
  IF i > Len(content) THEN Len(stack) = 0
  ELSE IF content[i] \in DOMAIN Delimiters
    THEN BalancedFrom(content, i + 1, Append(stack, content[i]))
  ELSE IF content[i] \in Closers
    THEN IF stack = << >> THEN FALSE
         ELSE IF Delimiters[stack[Len(stack)]] # content[i] THEN FALSE
         ELSE BalancedFrom(content, i + 1, SubSeq(stack, 1, Len(stack) - 1))
  ELSE BalancedFrom(content, i + 1, stack)

\* ScriptValidator._check_balanced_delimiters
ValidatorCheckBalancedDelimiters(content) == BalancedFrom(content, 1, << >>)

\* _basic_validation
BasicValidation(script_content) ==
  /\ ~(script_content = << >> \/ Len(Trim(script_content)) < 10)
  /\ ~(Len(script_content) > ValidationRules.max_script_length)
  /\ ValidatorCheckBalancedDelimiters(script_content)

\* the patterns of a table that re.search finds in the text, each as
\* << category, place in the list of the category >>
Hits(table, text) ==
  {h \in UNION {{<< c, n >> : n \in 1..Len(table[c])} : c \in DOMAIN table} :
     Search(table[h[1]][h[2]], text)}

\* _security_validation without the loop over the dangerous patterns
SecurityValidationSuspiciousOnly(script_content) ==
  ~(Cardinality(Hits(SuspiciousPatterns, ToLower(script_content))) > 5)

\* _security_validation: the searches are made in script_content.lower()
SecurityValidation(script_content) ==
  /\ Hits(DangerousPatterns, ToLower(script_content)) = {}
  /\ ~(Cardinality(Hits(SuspiciousPatterns, ToLower(script_content))) > 5)

\* the category of the first dangerous pattern found, in the order of the
\* loops of _security_validation
FirstDangerous(script_content) ==
  LET hits == Hits(DangerousPatterns, ToLower(script_content))
      n == CHOOSE k \in 1..Len(DangerousCategories) :
             /\ \E h \in hits : h[1] = DangerousCategories[k]
             /\ \A j \in 1..(k - 1) :
                  ~\E h \in hits : h[1] = DangerousCategories[j]
  IN  DangerousCategories[n]

\* _performance_validation
PerformanceValidation(script_content) ==
  /\ \A n \in 1..Len(SuspiciousPatterns.infinite_loops) :
       ~Search(SuspiciousPatterns.infinite_loops[n], script_content)
  /\ \A n \in 1..Len(SuspiciousPatterns.excessive_iterations) :
       ~Search(SuspiciousPatterns.excessive_iterations[n], script_content)
  /\ ~(CountMatches(FunctionPattern, script_content)
         > ValidationRules.max_function_count)
  /\ ~(CountMatches(LocalPattern, script_content)
         > ValidationRules.max_variable_count)

\* the lines of the text, and those that are not empty, are comments, are code
NonEmptyLines(lines) == {k \in 1..Len(lines) : Trim(lines[k]) # << >>}

CommentLinesOf(lines) ==
  {k \in 1..Len(lines) : StartsWith(Trim(lines[k]), << "-", "-" >>)}

CodeLines(lines) == NonEmptyLines(lines) \ CommentLinesOf(lines)

\* _content_validation: comment_ratio > 0.8 is counted in tenths
ContentValidation(script_content) ==
  LET lines == SplitNl(script_content)
  IN  /\ ~(Cardinality(CodeLines(lines)) < ValidationRules.min_code_lines)
      /\ NonEmptyLines(lines) # {}
           => ~(10 * Cardinality(CommentLinesOf(lines))
                  > ValidationRules.max_comment_ratio_tenths
                      * Cardinality(NonEmptyLines(lines)))
      /\ \A n \in 1..Len(SuspiciousPatterns.suspicious_strings) :
           ~Search(SuspiciousPatterns.suspicious_strings[n], script_content)

\* the check of validate_script that fails first, "none" when all pass
FailedCheck(script_content) ==
  IF ~BasicValidation(script_content) THEN "basic"
  ELSE IF ~SecurityValidation(script_content) THEN "security"
  ELSE IF ~PerformanceValidation(script_content) THEN "performance"
  ELSE IF ~ContentValidation(script_content) THEN "content"
  ELSE "none"

\* get_validation_report: the statistics
Statistics(script_content) ==
  LET lines == SplitNl(script_content)
  IN  [ total_lines |-> Len(lines),
        non_empty_lines |-> Cardinality(NonEmptyLines(lines)),
        comment_lines |-> Cardinality(CommentLinesOf(lines)),
        code_lines |-> Cardinality(CodeLines(lines)),
        function_count |-> CountMatches(FunctionPattern, script_content),
        variable_count |-> CountMatches(LocalPattern, script_content),
        loop_count |-> CountMatches(LoopPattern, script_content) ]

NotEnoughCode == << "Not enough actual code lines", 0 >>

TooManyLoops == << "Too many loops", 0 >>

\* _generate_recommendations, each recommendation by its first words
GenerateRecommendations(score, statistics, warnings) ==
  (IF score < 80 THEN {"Consider reviewing"} ELSE {})
    \cup (IF statistics.comment_lines < 2 THEN {"Add more comments"} ELSE {})
    \cup (IF statistics.function_count > 20 THEN {"Consider breaking down"}
          ELSE {})
    \cup (IF statistics.loop_count > 5 THEN {"Review loops"} ELSE {})
    \cup (IF warnings # {} THEN {"Review warnings"} ELSE {})

\* get_validation_report: the issues, the warnings, the score, the verdict
\* and the recommendations
ValidationReport(script_content) ==
  LET statistics == Statistics(script_content)
      security_issues == Hits(DangerousPatterns, script_content)
      suspicious == Hits(SuspiciousPatterns, script_content)
      loops == statistics.loop_count > ValidationRules.max_loop_count
      short == statistics.code_lines < ValidationRules.min_code_lines
      issues == security_issues \cup (IF short THEN {NotEnoughCode} ELSE {})
      warnings == suspicious \cup (IF loops THEN {TooManyLoops} ELSE {})
      raw == 0 - (IF security_issues # {} THEN 50 ELSE 0)
               - (IF suspicious # {} THEN 10 ELSE 0)
               - (IF loops THEN 5 ELSE 0)
               - (IF short THEN 20 ELSE 0)
      score == IF raw + 100 > 100 THEN 100
               ELSE IF raw + 100 < 0 THEN 0 ELSE raw + 100
  IN  [ script_length |-> Len(script_content),
        issues |-> issues,
        warnings |-> warnings,
        statistics |-> statistics,
        security_score |-> score,
        recommendations |->
          GenerateRecommendations(score, statistics, warnings),
        validation_passed |-> issues = {} /\ score >= 70 ]

\* the scripts handed to the validator: the texts of up to MaxScriptLines
\* lines of ScriptLines, and some longer ones
ScriptLines ==
  { << "l", "o", "c", "a", "l", " ", "x", " ", "=", " ", "1" >>,
    << "p", "r", "i", "n", "t", "(", "x", ")" >>,
    << "o", "s", ".", "e", "x", "e", "c", "u", "t", "e", "(", "\"", "r",
       "m", " ", "-", "r", "f", " ", "/", "\"", ")" >>,
    << "O", "S", ".", "E", "x", "e", "c", "u", "t", "e", " ", "(", "\"",
       "x", "\"", ")" >>,
    << " ", " ", "x", " ", "=", " ", "x", " ", "+", " ", "1", " ", " " >>,
    << "h", "a", "c", "k", "(", ")" >> }

MaxScriptLines == 3

LongerScripts ==
  { << "a", "\n", "b", "\n", "c", " ", " ", " ", " ", " " >>,
    << "l", "o", "c", "a", "l", " ", "x", " ", "=", " ", "1", "\n", "p",
       "r", "i", "n", "t", "(", "x", ")", "\n", "p", "r", "i", "n", "t",
       "(", "\"", "d", "o", "n", "e", "\"", ")" >>,
    << "w", "h", "i", "l", "e", " ", "t", "r", "u", "e", " ", "d", "o",
       " ", "e", "n", "d", "\n", "p", "r", "i", "n", "t", "(", "x", ")",
       "\n", "p", "r", "i", "n", "t", "(", "x", ")" >>,
    << "p", "r", "i", "n", "t", "(", "(", "x", ")", "\n", "p", "r", "i",
       "n", "t", "(", "x", ")", "\n", "p", "r", "i", "n", "t", "(", "x",
       ")" >>,
    << "-", "-", " ", "a", "\n", "-", "-", " ", "b", "\n", "-", "-", " ",
       "c", "\n", "-", "-", " ", "d", "\n", "-", "-", " ", "e", "\n", "x",
       " ", "=", " ", "1", "\n", "y", " ", "=", " ", "2", "\n", "z", " ",
       "=", " ", "3" >>,
    << "-", "-", " ", "a", "\n", "-", "-", " ", "b", "\n", "-", "-", " ",
       "c", "\n", "-", "-", " ", "d", "\n", "-", "-", " ", "e", "\n", "-",
       "-", " ", "f", "\n", "-", "-", " ", "g", "\n", "-", "-", " ", "h",
       "\n", "-", "-", " ", "i", "\n", "-", "-", " ", "j", "\n", "-", "-",
       " ", "k", "\n", "-", "-", " ", "l", "\n", "-", "-", " ", "m", "\n",
       "x", " ", "=", " ", "1", "\n", "y", " ", "=", " ", "2", "\n", "z",
       " ", "=", " ", "3" >>,
    << "f", "o", "r", " ", "i", " ", "=", " ", "1", ",", " ", "1", "0",
       "0", "0", "0", "0", "0", " ", "d", "o", " ", "e", "n", "d", "\n",
       "p", "r", "i", "n", "t", "(", "x", ")", "\n", "p", "r", "i", "n",
       "t", "(", "x", ")" >>,
    << "r", "e", "q", "u", "i", "r", "e", " ", "(", "\"", "m", "\"", ")",
       "\n", "p", "r", "i", "n", "t", "(", "x", ")", "\n", "p", "r", "i",
       "n", "t", "(", "x", ")" >> }

ValidatorScripts ==
  {JoinNl(ls) : ls \in UNION {[1..n -> ScriptLines] : n \in 1..MaxScriptLines}}
    \cup LongerScripts

VARIABLES
  vScript,       \* the script last handed to the validator
  vResult,       \* what validate_script returned and the check that failed
  vReport        \* what get_validation_report returned

validatorVars == << vScript, vResult, vReport >>

NoVerdict == [op |-> "none"]

ValidatorInit ==
  /\ vScript = << >>
  /\ vResult = NoVerdict
  /\ vReport = NoVerdict

\* validate_script: the four checks in order, the first that fails ends it
validate_script(script_content) ==
  /\ vResult = NoVerdict
  /\ vScript' = script_content
  /\ vResult' =
       [ op |-> "validate_script",
         returned |-> FailedCheck(script_content) = "none",
         failed |-> FailedCheck(script_content),
         category |-> IF FailedCheck(script_content) = "security"
                         /\ Hits(DangerousPatterns, ToLower(script_content))
                              # {}
                        THEN FirstDangerous(script_content) ELSE "none" ]
  /\ vReport' = NoVerdict

\* get_validation_report for the script validate_script was given
get_validation_report ==
  /\ vResult # NoVerdict
  /\ vReport = NoVerdict
  /\ vReport' = [op |-> "get_validation_report"]
                  @@ ValidationReport(vScript)
  /\ UNCHANGED << vScript, vResult >>

\* the caller goes on to its next script
ValidatorDone ==
  /\ vReport # NoVerdict
  /\ vScript' = << >>
  /\ vResult' = NoVerdict
  /\ vReport' = NoVerdict

\* ------------------------------------------------------------ ScriptBuilder
\* the loop of ScriptBuilder._check_balanced_delimiters from character i on
RECURSIVE BuilderBalancedFrom(_, _, _)
BuilderBalancedFrom(code, i, stack) ==
  IF i > Len(code) THEN Len(stack) = 0
  ELSE IF code[i] \in DOMAIN Delimiters
    THEN BuilderBalancedFrom(code, i + 1, Append(stack, code[i]))
  ELSE IF code[i] \in Closers
    THEN IF stack = << >> THEN FALSE
         ELSE IF Delimiters[stack[Len(stack)]] # code[i] THEN FALSE
         ELSE BuilderBalancedFrom(code, i + 1,
                                  SubSeq(stack, 1, Len(stack) - 1))
  ELSE BuilderBalancedFrom(code, i + 1, stack)

\* ScriptBuilder._check_balanced_delimiters
BuilderCheckBalancedDelimiters(code) == BuilderBalancedFrom(code, 1, << >>)

\* the texts handed to the two checks: every text of up to MaxDelimiters
\* characters of the six delimiters and a letter, and the two examples
MaxDelimiters == 4

DelimiterAlphabet == {"(", ")", "[", "]", "{", "}", "x"}

BalancedExample ==
  << "p", "r", "i", "n", "t", "(", "1", ",", " ", "(", "2", "+", "3", ")",
     ")" >>

UnbalancedExample ==
  << "p", "r", "i", "n", "t", "(", "1", ",", " ", "(", "2", "+", "3", ")" >>

DelimiterTexts ==
  UNION {[1..n -> DelimiterAlphabet] : n \in 0..MaxDelimiters}
    \cup {BalancedExample, UnbalancedExample}

VARIABLES
  dText,         \* the text handed to the checks
  dBuilder,      \* what the check of the builder answered
  dValidator     \* what the check of the validator answered

delimiterVars == << dText, dBuilder, dValidator >>

NotAsked == [asked |-> FALSE, answer |-> FALSE]

Answered(answer) == [asked |-> TRUE, answer |-> answer]

DelimitersInit ==
  /\ dText = << >>
  /\ dBuilder = NotAsked
  /\ dValidator = NotAsked

\* _validate_lua_code of the builder asks its own check
BuilderCheck(code) ==
  /\ ~dBuilder.asked
  /\ dText' = code
  /\ dBuilder' = Answered(BuilderCheckBalancedDelimiters(code))
  /\ UNCHANGED dValidator

\* _basic_validation of the validator asks its own check about the same text
ValidatorCheck ==
  /\ dBuilder.asked /\ ~dValidator.asked
  /\ dValidator' = Answered(ValidatorCheckBalancedDelimiters(dText))
  /\ UNCHANGED << dText, dBuilder >>

\* on to the next text
DelimitersDone ==
  /\ dValidator.asked
  /\ dText' = << >>
  /\ dBuilder' = NotAsked
  /\ dValidator' = NotAsked

\* the character ` of a response, which a string of this language cannot hold
Backtick == "backtick"

\* the characters of a response
Punctuation ==
  { "!", "\"", "#", "$", "%", "&", "'", "(", ")", "*", "+", ",", "-", ".",
    "/", ":", ";", "<", "=", ">", "?", "@", "[", "\\", "]", "^", Backtick, "{",
    "|", "}", "~" }

\* . of a regular expression: any character but a newline
Dot == (WordChars \cup Punctuation \cup White) \ {"\n"}

\* the first place at or after from where sub occurs in s, 0 when there is
\* none
FindFrom(s, sub, from) ==
  LET later == {i \in Occurrences(s, sub) : i >= from}
  IN  IF later = {} THEN 0 ELSE CHOOSE i \in later : \A j \in later : i <= j

Fence == << Backtick, Backtick, Backtick >>

\* re.findall(opening (.*?) closing, ..., re.DOTALL | re.IGNORECASE) for an
\* opening and a closing text, and matches[0].strip(): the text between the
\* first opening and the first closing after it, trimmed; the white space
\* that \s* takes on either side is trimmed with it. << found, text >>
FirstBetween(response, opening, closing) ==
  LET lower == ToLower(response)
      s == Find(lower, opening)
      f == IF s = 0 THEN 0 ELSE FindFrom(lower, closing, s + Len(opening))
  IN  IF f = 0 THEN << FALSE, << >> >>
      ELSE << TRUE, Trim(SubSeq(response, s + Len(opening), f - 1)) >>

\* the start marker and the end marker of the fourth of self.code_patterns:
\* two dashes, Script, Start or End, two dashes, with any white space between
StartMarker ==
  Lit(<< "-", "-" >>) \o AtLeast(White, 0)
    \o Lit(<< "S", "c", "r", "i", "p", "t" >>) \o AtLeast(White, 0)
    \o Lit(<< "S", "t", "a", "r", "t" >>) \o AtLeast(White, 0)
    \o Lit(<< "-", "-" >>)

EndMarkerPattern ==
  Lit(<< "-", "-" >>) \o AtLeast(White, 0)
    \o Lit(<< "S", "c", "r", "i", "p", "t" >>) \o AtLeast(White, 0)
    \o Lit(<< "E", "n", "d" >>) \o AtLeast(White, 0) \o Lit(<< "-", "-" >>)

\* the same for the markers: the text between the end of the first start
\* marker and the first end marker after it, trimmed
BetweenMarkers(response) ==
  LET starts == {i \in 1..Len(response) :
                   MatchEnds(StartMarker, response, {i}, 1) # {}}
      s  == CHOOSE i \in starts : \A j \in starts : i <= j
      from == CHOOSE q \in MatchEnds(StartMarker, response, {s}, 1) : TRUE
      ends == {i \in from..Len(response) :
                 MatchEnds(EndMarkerPattern, response, {i}, 1) # {}}
  IN  IF starts = {} \/ ends = {} THEN << FALSE, << >> >>
      ELSE << TRUE,
              Trim(SubSeq(response, from,
                          (CHOOSE i \in ends : \A j \in ends : i <= j) - 1)) >>

\* self.validation_patterns
LuaKeywords ==
  { << "l", "o", "c", "a", "l" >>,
    << "f", "u", "n", "c", "t", "i", "o", "n" >>,
    << "i", "f" >>,
    << "t", "h", "e", "n" >>,
    << "e", "l", "s", "e" >>,
    << "e", "l", "s", "e", "i", "f" >>,
    << "e", "n", "d" >>,
    << "f", "o", "r" >>,
    << "w", "h", "i", "l", "e" >>,
    << "d", "o" >>,
    << "r", "e", "p", "e", "a", "t" >>,
    << "u", "n", "t", "i", "l" >>,
    << "b", "r", "e", "a", "k" >>,
    << "r", "e", "t", "u", "r", "n" >>,
    << "a", "n", "d" >>,
    << "o", "r" >>,
    << "n", "o", "t" >>,
    << "t", "r", "u", "e" >>,
    << "f", "a", "l", "s", "e" >>,
    << "n", "i", "l" >> }

RobloxApis ==
  { << "g", "a", "m", "e" >>,
    << "w", "o", "r", "k", "s", "p", "a", "c", "e" >>,
    << "p", "l", "a", "y", "e", "r", "s" >>,
    << "p", "l", "a", "y", "e", "r" >>,
    << "s", "c", "r", "i", "p", "t" >>,
    << "V", "e", "c", "t", "o", "r", "3" >>,
    << "C", "F", "r", "a", "m", "e" >>,
    << "C", "o", "l", "o", "r", "3" >>,
    << "I", "n", "s", "t", "a", "n", "c", "e" >>,
    << "T", "w", "e", "e", "n", "I", "n", "f", "o" >>,
    << "w", "a", "i", "t" >>,
    << "s", "p", "a", "w", "n" >>,
    << "t", "i", "c", "k" >>,
    << "t", "i", "m", "e" >>,
    << "w", "a", "r", "n" >>,
    << "e", "r", "r", "o", "r" >>,
    << "p", "r", "i", "n", "t" >> }

\* lua_patterns of _is_lua_line
LuaPatterns ==
  { AtLeast(White, 0) \o Lit(<< "l", "o", "c", "a", "l" >>) \o AtLeast(White, 1)
      \o AtLeast(WordChars, 1),
    AtLeast(White, 0) \o Lit(<< "f", "u", "n", "c", "t", "i", "o", "n" >>)
      \o AtLeast(White, 1) \o AtLeast(WordChars, 1),
    AtLeast(White, 0) \o Lit(<< "i", "f" >>) \o AtLeast(White, 1)
      \o AtLeast(Dot, 0) \o AtLeast(White, 1) \o Lit(<< "t", "h", "e", "n" >>),
    AtLeast(White, 0) \o Lit(<< "f", "o", "r" >>) \o AtLeast(White, 1)
      \o AtLeast(Dot, 0) \o AtLeast(White, 1) \o Lit(<< "d", "o" >>),
    AtLeast(White, 0) \o Lit(<< "w", "h", "i", "l", "e" >>) \o AtLeast(White, 1)
      \o AtLeast(Dot, 0) \o AtLeast(White, 1) \o Lit(<< "d", "o" >>),
    AtLeast(White, 0) \o Lit(<< "p", "r", "i", "n", "t" >>) \o AtLeast(White, 0)
      \o Lit(<< "(" >>),
    AtLeast(White, 0) \o Lit(<< "w", "a", "i", "t" >>) \o AtLeast(White, 0)
      \o Lit(<< "(" >>),
    AtLeast(White, 0) \o Lit(<< "-", "-" >>) \o AtLeast(Dot, 0) }

\* _is_lua_line
IsLuaLine(line) ==
  \/ AnyKeyword(ToLower(line), LuaKeywords)
  \/ AnyKeyword(ToLower(line), {ToLower(api) : api \in RobloxApis})
  \/ \E pattern \in LuaPatterns : MatchEnds(pattern, line, {1}, 1) # {}

\* _extract_lua_like_content: the lines are stripped; those before the first
\* line that looks like Lua are left out, those from it on are kept
ExtractLuaLikeContent(ai_response) ==
  LET lines == [k \in 1..Len(SplitNl(ai_response)) |->
                  Trim(SplitNl(ai_response)[k])]
      lua   == {k \in 1..Len(lines) : IsLuaLine(lines[k])}
  IN  IF lua = {} THEN << >>
      ELSE JoinNl(SubSeq(lines, CHOOSE k \in lua : \A j \in lua : k <= j,
                         Len(lines)))

\* ScriptBuilder._extract_lua_code: the first of self.code_patterns that
\* matches gives the code, else the content that looks like Lua
ExtractLuaCode(ai_response) ==
  LET lua    == FirstBetween(ai_response, Fence \o << "l", "u", "a" >>, Fence)
      fenced == FirstBetween(ai_response, Fence, Fence)
      inline == FirstBetween(ai_response, << Backtick >>, << Backtick >>)
      marked == BetweenMarkers(ai_response)
  IN  IF lua[1] THEN lua[2]
      ELSE IF fenced[1] THEN fenced[2]
      ELSE IF inline[1] THEN inline[2]
      ELSE IF marked[1] THEN marked[2]
      ELSE ExtractLuaLikeContent(ai_response)

\* extract_lua_code of the lighter executor
LightExtractLuaCode(ai_output) ==
  LET code_blocks ==
        FirstBetween(ai_output, Fence \o << "l", "u", "a", "\n" >>, Fence)
      from   == Find(ai_output, Fence \o << "\n" >>)
      to     == IF from = 0 THEN 0 ELSE FindFrom(ai_output, Fence, from + 4)
  IN  IF code_blocks[1] THEN code_blocks[2]
      ELSE IF to # 0 THEN Trim(SubSeq(ai_output, from + 4, to - 1))
      ELSE Trim(ai_output)

\* the responses handed to the extractors: the texts of up to
\* MaxResponseLines lines of ResponseLines, and some others
ResponseLines ==
  { << "p", "r", "i", "n", "t", "(", "\"", "x", "\"", ")" >>,
    << Backtick, Backtick, Backtick, "l", "u", "a" >>,
    << Backtick, Backtick, Backtick >>,
    << " ", " ", " ", " ", "p", "r", "i", "n", "t", "(", "x", ")" >>,
    << "x", " ", "=", " ", "1" >>,
    << "i", "f", " ", "x", " ", "t", "h", "e", "n" >>,
    << "e", "n", "d" >>,
    << "u", "s", "e", " ", Backtick, "x", Backtick >>,
    << "H", "e", "r", "e", " ", "y", "o", "u", " ", "g", "o", ":" >> }

MaxResponseLines == 3

OtherResponses ==
  { << "-", "-", " ", "S", "c", "r", "i", "p", "t", " ", "S", "t", "a",
       "r", "t", " ", "-", "-", "\n", "p", "r", "i", "n", "t", "(", "1",
       ")", "\n", "-", "-", " ", "S", "c", "r", "i", "p", "t", " ", "E",
       "n", "d", " ", "-", "-" >>,
    << Backtick, Backtick, Backtick, "l", "u", "a", "\n", "p", "r", "i",
       "n", "t", "(", Backtick, "x", Backtick, ")", "\n", Backtick,
       Backtick, Backtick >>,
    << Backtick, Backtick, Backtick, "L", "U", "A", "\n", "p", "r", "i",
       "n", "t", "(", "\"", "x", "\"", ")", "\n", Backtick, Backtick,
       Backtick >>,
    << " ", " ", "p", "r", "i", "n", "t", "(", "1", ")", "\n", "\n", " ",
       " ", "y", " ", "=", " ", "2", " ", " " >>,
    << "-", "-", "s", "c", "r", "i", "p", "t", " ", "s", "t", "a", "r",
       "t", "-", "-", " ", " ", "y", " ", "=", " ", "2", " ", " ", "\n",
       " ", "-", "-", "S", "C", "R", "I", "P", "T", " ", " ", "E", "N",
       "D", "-", "-" >>,
    << "p", "r", "i", "n", "t", "(", "1", ")", "\n", "\n" >>,
    << Backtick, Backtick, Backtick, "l", "u", "a", "\n", "p", "r", "i",
       "n", "t", "(", "\"", "x", "\"", ")", "\n", Backtick, Backtick,
       Backtick >> }

Responses ==
  {JoinNl(ls) :
     ls \in UNION {[1..n -> ResponseLines] : n \in 1..MaxResponseLines}}
    \cup OtherResponses

VARIABLES
  xResponse,     \* the response handed to the extractors
  xBuilder,      \* what ScriptBuilder._extract_lua_code returned for it
  xLight,        \* what extract_lua_code returned for it
  xBuilderAgain, \* what _extract_lua_code returned for its own result
  xLightAgain    \* what extract_lua_code returned for its own result

extractVars == << xResponse, xBuilder, xLight, xBuilderAgain, xLightAgain >>

NotExtracted == [done |-> FALSE, text |-> << >>]

Extracted(text) == [done |-> TRUE, text |-> text]

ExtractInit ==
  /\ xResponse = << >>
  /\ xBuilder = NotExtracted
  /\ xLight = NotExtracted
  /\ xBuilderAgain = NotExtracted
  /\ xLightAgain = NotExtracted

\* build_script of the ScriptBuilder extracts the code of a response
BuilderExtract(ai_response) ==
  /\ ~xBuilder.done
  /\ xResponse' = ai_response
  /\ xBuilder' = Extracted(ExtractLuaCode(ai_response))
  /\ UNCHANGED << xLight, xBuilderAgain, xLightAgain >>

\* build_script of the lighter executor extracts the code of the response
LightExtract ==
  /\ xBuilder.done /\ ~xLight.done
  /\ xLight' = Extracted(LightExtractLuaCode(xResponse))
  /\ UNCHANGED << xResponse, xBuilder, xBuilderAgain, xLightAgain >>

\* each extractor on its own result
BuilderExtractAgain ==
  /\ xBuilder.done /\ ~xBuilderAgain.done
  /\ xBuilderAgain' = Extracted(ExtractLuaCode(xBuilder.text))
  /\ UNCHANGED << xResponse, xBuilder, xLight, xLightAgain >>

LightExtractAgain ==
  /\ xLight.done /\ ~xLightAgain.done
  /\ xLightAgain' = Extracted(LightExtractLuaCode(xLight.text))
  /\ UNCHANGED << xResponse, xBuilder, xLight, xBuilderAgain >>

\* on to the next response
ExtractDone ==
  /\ xBuilderAgain.done /\ xLightAgain.done
  /\ xResponse' = << >>
  /\ xBuilder' = NotExtracted
  /\ xLight' = NotExtracted
  /\ xBuilderAgain' = NotExtracted
  /\ xLightAgain' = NotExtracted

\* ------------------------------------------------- crypto_utils (backend)
\* bytes are 0..255; a byte string is a sequence of bytes
KeyLen == 32

NonceLen == 16

TagLen == 16

\* bitwise exclusive or of two bytes
RECURSIVE Xor(_, _)
Xor(a, b) ==
  IF a = 0 THEN b
  ELSE IF b = 0 THEN a
  ELSE (((a % 2) + (b % 2)) % 2) + 2 * Xor(a \div 2, b \div 2)

\* a digest of a byte string, for the stand-in of the block cipher
RECURSIVE Weigh(_, _)
Weigh(bytes, i) ==
  IF i > Len(bytes) THEN 0 ELSE ((i * bytes[i]) + Weigh(bytes, i + 1)) % 256

\* AES.MODE_GCM is a counter mode: byte i of the text is combined with byte i
\* of a key stream fixed by the key and the nonce (a stand-in for the block
\* cipher, which belongs to the library)
KeyStream(key, nonce, i) ==
  (Weigh(key, 1) + 3 * Weigh(nonce, 1) + 17 * i + 1) % 256

\* cipher.encrypt / cipher.decrypt: the same combination both ways
Crypt(key, nonce, bytes) ==
  [i \in 1..Len(bytes) |-> Xor(bytes[i], KeyStream(key, nonce, i))]

\* the authentication tag of a ciphertext under a key and a nonce
Digest(key, nonce, ciphertext) ==
  [i \in 1..TagLen |->
     (Weigh(key, 1) + 5 * Weigh(nonce, 1) + 7 * Weigh(ciphertext, 1)
        + 11 * Len(ciphertext) + i) % 256]

\* nonce + tag + ciphertext of encrypt_file and encrypt_string
Pack(key, nonce, plaintext) ==
  LET ciphertext == Crypt(key, nonce, plaintext)
  IN nonce \o Digest(key, nonce, ciphertext) \o ciphertext

\* data[:n] and data[n:] of a byte string
Take(data, n) == SubSeq(data, 1, IF n < Len(data) THEN n ELSE Len(data))

Drop(data, n) == SubSeq(data, n + 1, Len(data))

\* an unpacking that takes the 12 bytes usual for this mode as the nonce
UnpackShortNonce(data) ==
  [nonce |-> Take(data, 12),
   tag |-> Take(Drop(data, 12), TagLen),
   ciphertext |-> Drop(data, 12 + TagLen)]

\* data[:16], data[16:32], data[32:] of decrypt_file and decrypt_string
Unpack(data) ==
  [nonce |-> Take(data, NonceLen),
   tag |-> Take(Drop(data, NonceLen), TagLen),
   ciphertext |-> Drop(data, NonceLen + TagLen)]

MacCheckFailed == [ok |-> FALSE, bytes |-> << >>]

\* AES.new(key, AES.MODE_GCM, nonce=nonce) and decrypt_and_verify, which
\* raise ValueError for an empty nonce and for a tag that does not verify
DecryptAndVerify(key, data) ==
  LET parts == Unpack(data)
  IN IF Len(parts.nonce) = 0 THEN MacCheckFailed
     ELSE IF parts.tag # Digest(key, parts.nonce, parts.ciphertext)
       THEN MacCheckFailed
     ELSE [ok |-> TRUE, bytes |-> Crypt(key, parts.nonce, parts.ciphertext)]

\* str.encode(): UTF-8 of a text given as its code points (below 65536, no
\* surrogates)
RECURSIVE Utf8Encode(_)
Utf8Encode(text) ==
  IF text = << >> THEN << >>
  ELSE LET c == Head(text)
           bytes == IF c < 128 THEN << c >>
                    ELSE IF c < 2048
                      THEN << 192 + (c \div 64), 128 + (c % 64) >>
                    ELSE << 224 + (c \div 4096), 128 + ((c \div 64) % 64),
                            128 + (c % 64) >>
       IN bytes \o Utf8Encode(Tail(text))

Utf8Invalid == << "UnicodeDecodeError" >>

IsContinuation(bytes, i) ==
  i <= Len(bytes) /\ bytes[i] >= 128 /\ bytes[i] < 192

\* bytes.decode(): the code points of a UTF-8 byte string
RECURSIVE Utf8Decode(_, _, _)
Utf8Decode(bytes, i, text) ==
  IF i > Len(bytes) THEN text
  ELSE LET b == bytes[i]
       IN IF b < 128 THEN Utf8Decode(bytes, i + 1, Append(text, b))
          ELSE IF b >= 194 /\ b < 224 /\ IsContinuation(bytes, i + 1)
            THEN Utf8Decode(bytes, i + 2,
                   Append(text, (b - 192) * 64 + (bytes[i + 1] - 128)))
          ELSE IF /\ b >= 224 /\ b < 240
                  /\ IsContinuation(bytes, i + 1)
                  /\ IsContinuation(bytes, i + 2)
                  /\ (b - 224) * 4096 + (bytes[i + 1] - 128) * 64 >= 2048
            THEN Utf8Decode(bytes, i + 3,
                   Append(text, (b - 224) * 4096 + (bytes[i + 1] - 128) * 64
                                  + (bytes[i + 2] - 128)))
          ELSE Utf8Invalid

\* base64: a token is a sequence of the indices 0..63 of its characters in
\* the base64 alphabet, with PadChar for "="
PadChar == 64

RECURSIVE B64Encode(_)
B64Encode(bytes) ==
  IF bytes = << >> THEN << >>
  ELSE IF Len(bytes) = 1
    THEN << bytes[1] \div 4, (bytes[1] % 4) * 16, PadChar, PadChar >>
  ELSE IF Len(bytes) = 2
    THEN << bytes[1] \div 4, (bytes[1] % 4) * 16 + (bytes[2] \div 16),
            (bytes[2] % 16) * 4, PadChar >>
  ELSE << bytes[1] \div 4, (bytes[1] % 4) * 16 + (bytes[2] \div 16),
          (bytes[2] % 16) * 4 + (bytes[3] \div 64), bytes[3] % 64 >>
         \o B64Encode(Drop(bytes, 3))

RECURSIVE B64Decode(_)
B64Decode(token) ==
  IF Len(token) < 4 THEN << >>
  ELSE LET a == token[1]
           b == token[2]
           c == token[3]
           d == token[4]
       IN IF c = PadChar THEN << a * 4 + (b \div 16) >>
          ELSE IF d = PadChar
            THEN << a * 4 + (b \div 16), (b % 16) * 16 + (c \div 4) >>
          ELSE << a * 4 + (b \div 16), (b % 16) * 16 + (c \div 4),
                  (c % 4) * 64 + d >> \o B64Decode(Drop(token, 4))

\* get_random_bytes(32) and the random nonce of AES.new: two outcomes each
RandomKeys == {[i \in 1..KeyLen |-> (b + 3 * i) % 256] : b \in {7, 130}}

RandomNonces == {[i \in 1..NonceLen |-> (b + 5 * i) % 256] : b \in {0, 201}}

\* the contents and the texts handed over
MaxContentLen == 2

ContentBytes == {0, 10, 255}

Contents == UNION {[1..n -> ContentBytes] : n \in 0..MaxContentLen}

MaxTextLen == 2

\* a, e with acute accent, the euro sign: one, two and three bytes of UTF-8
TextChars == {97, 233, 8364}

Texts == UNION {[1..n -> TextChars] : n \in 0..MaxTextLen}

\* a path is the sequence of the parts of its name
EncSuffix == ".enc"

SourcePaths == {<< "notes", ".txt" >>, << "old", ".enc", ".lua" >>}

NoPath == << >>

DestinationPaths == {NoPath, << "out", ".bin" >>}

\* src_path.replace(".enc", "")
WithoutEnc(path) == SelectSeq(path, LAMBDA part : part # EncSuffix)

VARIABLES
  crKeyFile,      \* KEY_FILE: whether it exists, and its bytes
  crKeys,         \* the keys get_key has returned
  crFiles,        \* the files: a function from the paths that exist
  crpc,           \* where the round trip under way stands
  crSource,       \* the path and the content of the file handed to encrypt_file
  crNonce,        \* the nonce the last encryption drew
  crEncPath,      \* what encrypt_file returned
  crOutPath,      \* what decrypt_file returned
  crRaised,       \* whether the last decryption raised
  crTampered,     \* whether the encrypted file was changed in between
  crText,         \* the text handed to encrypt_string
  crToken,        \* what encrypt_string returned
  crBack          \* what decrypt_string returned

cryptoVars ==
  << crKeyFile, crKeys, crFiles, crpc, crSource, crNonce, crEncPath, crOutPath,
     crRaised, crTampered, crText, crToken, crBack >>

NoRoundTrip ==
  /\ crFiles = << >>
  /\ crpc = "idle"
  /\ crSource = [path |-> NoPath, content |-> << >>]
  /\ crNonce = << >>
  /\ crEncPath = NoPath
  /\ crOutPath = NoPath
  /\ crRaised = FALSE
  /\ crTampered = FALSE
  /\ crText = << >>
  /\ crToken = << >>
  /\ crBack = << >>

CryptoInit ==
  /\ crKeyFile = [exists |-> FALSE, data |-> << >>]
  /\ crKeys = {}
  /\ NoRoundTrip

\* open(path, "wb").write(data)
WriteFile(disk, path, data) ==
  [p \in DOMAIN disk \cup {path} |-> IF p = path THEN data ELSE disk[p]]

\* what get_key returns when the random source would give fresh
GetKey(fresh) == IF crKeyFile.exists THEN crKeyFile.data ELSE fresh

\* the key file and the record of the keys after get_key
KeyKept(fresh) ==
  /\ crKeyFile' = [exists |-> TRUE, data |-> GetKey(fresh)]
  /\ crKeys' = crKeys \cup {GetKey(fresh)}

KeepRoundTrip ==
  UNCHANGED << crFiles, crpc, crSource, crNonce, crEncPath, crOutPath, crRaised,
               crTampered, crText, crToken, crBack >>

get_key ==
  /\ crpc = "idle"
  /\ \E fresh \in RandomKeys : KeyKept(fresh)
  /\ KeepRoundTrip

\* the operator has a file to encrypt
PlaceFile ==
  /\ crpc = "idle"
  /\ \E path \in SourcePaths, content \in Contents :
       /\ crSource' = [path |-> path, content |-> content]
       /\ crFiles' = WriteFile(crFiles, path, content)
  /\ crpc' = "placed"
  /\ UNCHANGED << crKeyFile, crKeys, crNonce, crEncPath, crOutPath, crRaised,
                  crTampered, crText, crToken, crBack >>

encrypt_file ==
  /\ crpc = "placed"
  /\ \E fresh \in RandomKeys, nonce \in RandomNonces,
        dst_path \in DestinationPaths :
       LET out_path == IF dst_path # NoPath THEN dst_path
                       ELSE Append(crSource.path, EncSuffix)
       IN /\ KeyKept(fresh)
          /\ crNonce' = nonce
          /\ crFiles' = WriteFile(crFiles, out_path,
                         Pack(GetKey(fresh), nonce, crFiles[crSource.path]))
          /\ crEncPath' = out_path
  /\ crpc' = "encrypted"
  /\ UNCHANGED << crSource, crOutPath, crRaised, crTampered, crText, crToken,
                  crBack >>

\* somebody changes one byte of the tag or of the ciphertext of the file
TamperFile ==
  /\ crpc = "encrypted" /\ ~crTampered
  /\ \E at \in {NonceLen + 1, NonceLen + TagLen + 1} :
       /\ at <= Len(crFiles[crEncPath])
       /\ crFiles' = [crFiles EXCEPT ![crEncPath][at] = (@ + 1) % 256]
  /\ crTampered' = TRUE
  /\ UNCHANGED << crKeyFile, crKeys, crpc, crSource, crNonce, crEncPath, crOutPath,
                  crRaised, crText, crToken, crBack >>

decrypt_file ==
  /\ crpc = "encrypted"
  /\ \E fresh \in RandomKeys, dst_path \in DestinationPaths :
       LET opened == DecryptAndVerify(GetKey(fresh), crFiles[crEncPath])
           out_path == IF dst_path # NoPath THEN dst_path
                       ELSE WithoutEnc(crEncPath)
       IN /\ KeyKept(fresh)
          /\ IF opened.ok
               THEN /\ crFiles' = WriteFile(crFiles, out_path, opened.bytes)
                    /\ crOutPath' = out_path
                    /\ crRaised' = FALSE
               ELSE /\ crRaised' = TRUE
                    /\ UNCHANGED << crFiles, crOutPath >>
  /\ crpc' = "decrypted"
  /\ UNCHANGED << crSource, crNonce, crEncPath, crTampered, crText, crToken,
                  crBack >>

encrypt_string ==
  /\ crpc = "idle"
  /\ \E fresh \in RandomKeys, nonce \in RandomNonces, text \in Texts :
       /\ KeyKept(fresh)
       /\ crNonce' = nonce
       /\ crText' = text
       /\ crToken' = B64Encode(Pack(GetKey(fresh), nonce, Utf8Encode(text)))
  /\ crpc' = "sealed"
  /\ UNCHANGED << crFiles, crSource, crEncPath, crOutPath, crRaised, crTampered,
                  crBack >>

decrypt_string ==
  /\ crpc = "sealed"
  /\ \E fresh \in RandomKeys :
       LET opened == DecryptAndVerify(GetKey(fresh), B64Decode(crToken))
       IN /\ KeyKept(fresh)
          /\ crRaised' = ~opened.ok
          /\ crBack' = IF opened.ok THEN Utf8Decode(opened.bytes, 1, << >>)
                      ELSE << >>
  /\ crpc' = "opened"
  /\ UNCHANGED << crFiles, crSource, crNonce, crEncPath, crOutPath, crTampered,
                  crText, crToken >>

\* the round trip is over; the key file stays
CryptoDone ==
  /\ crpc \in {"decrypted", "opened"}
  /\ crFiles' = << >>
  /\ crpc' = "idle"
  /\ crSource' = [path |-> NoPath, content |-> << >>]
  /\ crNonce' = << >>
  /\ crEncPath' = NoPath
  /\ crOutPath' = NoPath
  /\ crRaised' = FALSE
  /\ crTampered' = FALSE
  /\ crText' = << >>
  /\ crToken' = << >>
  /\ crBack' = << >>
  /\ UNCHANGED << crKeyFile, crKeys >>

\* ------------------------- configuration of the lighter executor (utils/config.py)
\* the keys an environment variable can set, and the variable of each
EnvNameOf ==
  [backend_api_url |-> "MOON_BACKEND_API",
   ollama_api_url |-> "OLLAMA_API",
   ollama_default_model |-> "OLLAMA_MODEL",
   lua_timeout_seconds |-> "LUA_TIMEOUT",
   max_script_bytes |-> "MAX_SCRIPT_BYTES"]

OverridableKeys == DOMAIN EnvNameOf

EnvNames == {EnvNameOf[k] : k \in OverridableKeys}

\* the keys whose variable goes through int()
IntKeys == {"lua_timeout_seconds", "max_script_bytes"}

\* the second argument of each os.environ.get; a text that goes through int()
\* is the sequence of its characters
EnvDefault ==
  [backend_api_url |-> "http://localhost:8000/api/chat",
   ollama_api_url |-> "http://localhost:11434/api/generate",
   ollama_default_model |-> "mistral:7b-instruct-q4_0",
   lua_timeout_seconds |-> << "5" >>,
   max_script_bytes |-> << "2", "0", "0", "0", "0" >>]

DigitChars == << "0", "1", "2", "3", "4", "5", "6", "7", "8", "9" >>

DigitOf(ch) == (CHOOSE i \in 1..10 : DigitChars[i] = ch) - 1

\* int() of a text of decimal digits
RECURSIVE IntOf(_)
IntOf(digits) ==
  IF digits = << >> THEN 0
  ELSE 10 * IntOf(SubSeq(digits, 1, Len(digits) - 1))
         + DigitOf(digits[Len(digits)])

\* what the operator's environment can hold for each variable
EnvValue ==
  [MOON_BACKEND_API |-> "http://gateway.test/api/chat",
   OLLAMA_API |-> "http://ollama.test/api/generate",
   OLLAMA_MODEL |-> "deepseek-coder:6.7b",
   LUA_TIMEOUT |-> << "1", "2" >>,
   MAX_SCRIPT_BYTES |-> << "4", "0", "9", "6" >>]

Environments ==
  {[n \in names |-> EnvValue[n]] : names \in SUBSET EnvNames}

\* what config.yaml can hold for each key
FileValue ==
  [backend_api_url |-> "http://file.test/api/chat",
   ollama_api_url |-> "http://file.test/api/generate",
   ollama_default_model |-> "codellama:7b",
   lua_timeout_seconds |-> 9,
   max_script_bytes |-> 512,
   log_dir |-> "/var/log/moon"]

SettingsDocuments ==
  {[k \in keys |-> FileValue[k]] : keys \in SUBSET DOMAIN FileValue}

VARIABLES
  lcEnviron,     \* os.environ: a function from the variables that are set
  lcModule,      \* the module constants, once the module is imported
  lcFile,        \* config.yaml: whether it exists, and the document in it
  lcConfig,      \* what get_config returned
  lcpc           \* what has happened so far

liteConfigVars == << lcEnviron, lcModule, lcFile, lcConfig, lcpc >>

NoDocument == [exists |-> FALSE, data |-> << >>]

LiteConfigInit ==
  /\ lcEnviron = << >>
  /\ lcModule = << >>
  /\ lcFile = NoDocument
  /\ lcConfig = << >>
  /\ lcpc = "start"

\* os.environ.get(name, default)
EnvironGet(environ, name, default) ==
  IF name \in DOMAIN environ THEN environ[name] ELSE default

\* BACKEND_API_URL .. MAX_SCRIPT_BYTES as the import of the module sets them
ModuleConstants(environ) ==
  [k \in OverridableKeys |->
     LET text == EnvironGet(environ, EnvNameOf[k], EnvDefault[k])
     IN IF k \in IntKeys THEN IntOf(text) ELSE text]

\* dict.update
Update(config, override) ==
  [k \in DOMAIN config \cup DOMAIN override |->
     IF k \in DOMAIN override THEN override[k] ELSE config[k]]

\* load_config_override: {} without the file, else its document
LoadConfigOverride == IF lcFile.exists THEN lcFile.data ELSE << >>

\* the dict get_config builds from the module constants
BuiltConfig ==
  [k \in OverridableKeys \cup {"banned_tokens", "infinite_loop_patterns",
                               "log_dir", "scripts_dir"} |->
     IF k \in OverridableKeys THEN lcModule[k]
     ELSE IF k = "banned_tokens" THEN BANNED_TOKENS
     ELSE IF k = "infinite_loop_patterns" THEN INFINITE_LOOP_PATTERNS
     ELSE IF k = "log_dir" THEN "logs"
     ELSE "sandboxed_scripts"]

\* the operator starts the process with some variables set
SetEnvironment ==
  /\ lcpc = "start"
  /\ lcEnviron' \in Environments
  /\ lcpc' = "started"
  /\ UNCHANGED << lcModule, lcFile, lcConfig >>

\* import of utils.config: lines 12 to 18 run once
ImportConfig ==
  /\ lcpc = "started"
  /\ lcModule' = ModuleConstants(lcEnviron)
  /\ lcpc' = "imported"
  /\ UNCHANGED << lcEnviron, lcFile, lcConfig >>

\* config.yaml is there, with some document, or is not
WriteSettings ==
  /\ lcpc = "imported"
  /\ \/ lcFile' = NoDocument
     \/ \E document \in SettingsDocuments :
          lcFile' = [exists |-> TRUE, data |-> document]
  /\ lcpc' = "settled"
  /\ UNCHANGED << lcEnviron, lcModule, lcConfig >>

get_config ==
  /\ lcpc = "settled"
  /\ lcConfig' = Update(BuiltConfig, LoadConfigOverride)
  /\ lcpc' = "got"
  /\ UNCHANGED << lcEnviron, lcModule, lcFile >>

\* the process ends
LiteConfigDone ==
  /\ lcpc = "got"
  /\ lcEnviron' = << >>
  /\ lcModule' = << >>
  /\ lcFile' = NoDocument
  /\ lcConfig' = << >>
  /\ lcpc' = "start"

\* ------------------------------------------------------------ CIAExecutorCLI
\* a command line: the action flags given, whether an option the parser does
\* not know is among the arguments, and the options of the actions
CommandLines ==
  [actions : {a \in SUBSET {"generate", "execute", "validate"} :
                Cardinality(a) <= 2},
   unknownOption : BOOLEAN,
   script : {"not given", "no such file", "a file"},
   prompt : {"", "print hello"},
   force : BOOLEAN]

\* what the parts the front end calls do in this run: whether the validator
\* accepts the script, and whether the executor returns or raises
Worlds == [valid : BOOLEAN, executes : BOOLEAN]

VARIABLES
  cliArgs,       \* the command line
  cliWorld,      \* what the validator and the executor will do
  cliPc,         \* where the process is
  cliExit,       \* the exit status of the process
  cliErrors,     \* how many times log_error was called
  cliSaved,      \* whether save_generated_script was called
  cliPrinted     \* the last line printed

cliVars ==
  << cliArgs, cliWorld, cliPc, cliExit, cliErrors, cliSaved, cliPrinted >>

NoCommand ==
  [actions |-> {}, unknownOption |-> FALSE, script |-> "not given",
   prompt |-> "", force |-> FALSE]

CliInit ==
  /\ cliArgs = NoCommand
  /\ cliWorld = [valid |-> TRUE, executes |-> TRUE]
  /\ cliPc = "shell"
  /\ cliExit = 0
  /\ cliErrors = 0
  /\ cliSaved = FALSE
  /\ cliPrinted = ""

\* the operator types a command
CliStart ==
  /\ cliPc = "shell"
  /\ cliArgs' \in CommandLines
  /\ cliWorld' \in Worlds
  /\ cliPc' = "main"
  /\ UNCHANGED << cliExit, cliErrors, cliSaved, cliPrinted >>

\* parser.parse_args(): an unknown option, or two flags of the mutually
\* exclusive group, end the process with status 2
ParseArgs ==
  /\ cliPc = "main"
  /\ IF cliArgs.unknownOption \/ Cardinality(cliArgs.actions) > 1
       THEN /\ cliPc' = "exited"
            /\ cliExit' = 2
            /\ cliPrinted' = "usage"
       ELSE /\ cliPc' = "run"
            /\ UNCHANGED << cliExit, cliPrinted >>
  /\ UNCHANGED << cliArgs, cliWorld, cliErrors, cliSaved >>

\* the except clause of run: log_error, print, sys.exit(1)
RunExcept ==
  /\ cliErrors' = cliErrors + 1
  /\ cliPrinted' = "Error"
  /\ cliExit' = 1
  /\ cliPc' = "exited"

\* run returns, main returns, and the interpreter exits with status 0
RunReturns(line) ==
  /\ cliPrinted' = line
  /\ cliPc' = "exited"
  /\ UNCHANGED << cliExit, cliErrors >>

\* run with args.generate
RunGenerate ==
  /\ cliPc = "run" /\ "generate" \in cliArgs.actions
  /\ IF cliArgs.prompt = ""
       THEN RunReturns("Error: No prompt provided") /\ UNCHANGED cliSaved
     ELSE IF ~cliWorld.valid /\ ~cliArgs.force
       THEN RunReturns("Use --force to execute anyway") /\ UNCHANGED cliSaved
     ELSE RunReturns("Script generated successfully") /\ cliSaved' = TRUE
  /\ UNCHANGED << cliArgs, cliWorld >>

\* run with args.execute: Path(None) raises TypeError, a path that does not
\* exist is reported and execute_script returns, an ExecutionError of the
\* executor goes on to run
RunExecute ==
  /\ cliPc = "run" /\ "execute" \in cliArgs.actions
  /\ IF cliArgs.script = "not given" THEN RunExcept
     ELSE IF cliArgs.script = "no such file"
       THEN RunReturns("Error: Script file not found")
     ELSE IF cliWorld.executes THEN RunReturns("Execution completed")
     ELSE RunExcept
  /\ UNCHANGED << cliArgs, cliWorld, cliSaved >>

\* run with args.validate
RunValidate ==
  /\ cliPc = "run" /\ "validate" \in cliArgs.actions
  /\ IF cliArgs.script = "not given" THEN RunExcept
     ELSE IF cliArgs.script = "no such file"
       THEN RunReturns("Error: Script file not found")
     ELSE IF cliWorld.valid THEN RunReturns("Script validation passed")
     ELSE RunReturns("Script validation failed")
  /\ UNCHANGED << cliArgs, cliWorld, cliSaved >>

\* run without an action
RunNothing ==
  /\ cliPc = "run" /\ cliArgs.actions = {}
  /\ RunReturns("No action specified")
  /\ UNCHANGED << cliArgs, cliWorld, cliSaved >>

\* back at the shell
CliDone ==
  /\ cliPc = "exited"
  /\ cliArgs' = NoCommand
  /\ cliWorld' = [valid |-> TRUE, executes |-> TRUE]
  /\ cliPc' = "shell"
  /\ cliExit' = 0
  /\ cliErrors' = 0
  /\ cliSaved' = FALSE
  /\ cliPrinted' = ""

\* ------------------------------------------------------------ CIAExecutorGUI
MaxGuiRuns == 3

\* what ExecutorCore.execute_script does with the text handed to it: it
\* returns a str or raises ExecutionError
ExecutorOutcomes == {"returns str", "raises ExecutionError"}

\* the signals ExecutorWorker declares
WorkerSignals == {"execution_complete", "log_updated", "progress_updated"}

VARIABLES
  guiAlive,            \* the application is running
  current_script_path, \* "" for None
  execute_btn,         \* whether the Execute button is enabled
  stop_btn,            \* whether the Stop button is enabled
  exec_progress,       \* the progress bar: visible, value
  exec_status_label,   \* the text of the status label
  guiQueue,            \* signals of the worker queued for the interface thread
  gwPc,                \* where the run() of the executor worker stands
  gwResult,            \* what execute_script returned to the worker
  guiStopped,          \* the operator pressed Stop during this execution
  guiNotified,         \* on_execution_complete ran for this execution
  guiRuns              \* executions started

guiVars ==
  << guiAlive, current_script_path, execute_btn, stop_btn, exec_progress,
     exec_status_label, guiQueue, gwPc, gwResult, guiStopped, guiNotified,
     guiRuns >>

NoResultYet == [type |-> "none"]

GuiInit ==
  /\ guiAlive = TRUE
  /\ current_script_path = ""
  /\ execute_btn = FALSE
  /\ stop_btn = FALSE
  /\ exec_progress = [visible |-> FALSE, value |-> 0]
  /\ exec_status_label = "Ready"
  /\ guiQueue = << >>
  /\ gwPc = "none"
  /\ gwResult = NoResultYet
  /\ guiStopped = FALSE
  /\ guiNotified = FALSE
  /\ guiRuns = 0

\* load_script with a file chosen in the dialog
GuiLoadScript ==
  /\ guiAlive /\ current_script_path = ""
  /\ current_script_path' = "script.lua"
  /\ execute_btn' = TRUE
  /\ UNCHANGED << guiAlive, stop_btn, exec_progress, exec_status_label,
                  guiQueue, gwPc, gwResult, guiStopped, guiNotified,
                  guiRuns >>

\* a click on the enabled Execute button: execute_script
GuiExecuteScript ==
  /\ guiAlive /\ execute_btn /\ guiRuns < MaxGuiRuns
  /\ current_script_path # ""
  /\ execute_btn' = FALSE
  /\ stop_btn' = TRUE
  /\ exec_progress' = [visible |-> TRUE, value |-> 0]
  /\ exec_status_label' = "Executing script..."
  /\ gwPc' = "started"
  /\ gwResult' = NoResultYet
  /\ guiQueue' = << >>
  /\ guiStopped' = FALSE
  /\ guiNotified' = FALSE
  /\ guiRuns' = guiRuns + 1
  /\ UNCHANGED << guiAlive, current_script_path >>

WorkerRunning == gwPc \notin {"none", "finished", "died", "terminated"}

\* a signal emitted in the worker thread is queued for the interface thread
Emit(signal, argument) ==
  guiQueue' = Append(guiQueue, [signal |-> signal, argument |-> argument])

KeepWidgets ==
  UNCHANGED << guiAlive, current_script_path, execute_btn, stop_btn,
               exec_progress, exec_status_label, guiStopped, guiNotified,
               guiRuns >>

\* run: self.progress_updated.emit(10)
WorkerProgress ==
  /\ guiAlive /\ gwPc = "started"
  /\ Emit("progress_updated", "10")
  /\ gwPc' = "loading"
  /\ UNCHANGED gwResult
  /\ KeepWidgets

\* run: self.log_updated.emit("Loading script into sandbox...")
WorkerLog ==
  /\ guiAlive /\ gwPc = "loading"
  /\ Emit("log_updated", "Loading script into sandbox...")
  /\ gwPc' = "executing"
  /\ UNCHANGED gwResult
  /\ KeepWidgets

\* run: result = self.executor.execute_script(self.script_path)
WorkerExecute ==
  /\ guiAlive /\ gwPc = "executing"
  /\ \E outcome \in ExecutorOutcomes :
       IF outcome = "returns str"
         THEN /\ gwResult' = [type |-> "str"]
              /\ gwPc' = "returned"
         ELSE /\ gwPc' = "except"
              /\ UNCHANGED gwResult
  /\ UNCHANGED guiQueue
  /\ KeepWidgets

\* run: self.progress_updated.emit(100), then result.success, which a str
\* does not have
WorkerReport ==
  /\ guiAlive /\ gwPc = "returned"
  /\ IF gwResult.type = "SandboxResult"
       THEN /\ guiQueue' = guiQueue \o
                 << [signal |-> "progress_updated", argument |-> "100"],
                    [signal |-> "execution_complete",
                     argument |-> "Script executed successfully!"] >>
            /\ gwPc' = "finished"
       ELSE /\ Emit("progress_updated", "100")
            /\ gwPc' = "except"
  /\ UNCHANGED gwResult
  /\ KeepWidgets

\* run: except Exception: self.error_occurred.emit(...), a signal the worker
\* does not declare; the AttributeError leaves run, and the binding ends the
\* thread or the whole application
WorkerExcept ==
  /\ guiAlive /\ gwPc = "except"
  /\ IF "error_occurred" \in WorkerSignals
       THEN /\ Emit("error_occurred", "Execution error")
            /\ gwPc' = "finished"
            /\ UNCHANGED guiAlive
       ELSE /\ gwPc' = "died"
            /\ guiAlive' \in BOOLEAN
            /\ UNCHANGED guiQueue
  /\ UNCHANGED << gwResult, current_script_path, execute_btn, stop_btn,
                  exec_progress, exec_status_label, guiStopped, guiNotified,
                  guiRuns >>

\* on_execution_complete
OnExecutionComplete ==
  /\ execute_btn' = TRUE
  /\ stop_btn' = FALSE
  /\ exec_progress' = [exec_progress EXCEPT !.visible = FALSE]
  /\ exec_status_label' = "Execution completed"
  /\ guiNotified' = TRUE

\* the event loop of the interface thread hands the next queued signal to
\* the slot connected to it; a signal with no slot is dropped
GuiDeliver ==
  /\ guiAlive /\ guiQueue # << >>
  /\ guiQueue' = Tail(guiQueue)
  /\ LET event == Head(guiQueue)
     IN IF event.signal = "execution_complete" THEN OnExecutionComplete
        ELSE IF event.signal = "progress_updated"
          THEN /\ exec_progress' =
                    [exec_progress EXCEPT
                       !.value = IF event.argument = "10" THEN 10 ELSE 100]
               /\ UNCHANGED << execute_btn, stop_btn, exec_status_label,
                               guiNotified >>
        ELSE UNCHANGED << execute_btn, stop_btn, exec_progress,
                          exec_status_label, guiNotified >>
  /\ UNCHANGED << guiAlive, current_script_path, gwPc, gwResult, guiStopped,
                  guiRuns >>

\* a click on the enabled Stop button: stop_execution
GuiStopExecution ==
  /\ guiAlive /\ stop_btn
  /\ gwPc' = IF WorkerRunning THEN "terminated" ELSE gwPc
  /\ execute_btn' = TRUE
  /\ stop_btn' = FALSE
  /\ exec_progress' = [exec_progress EXCEPT !.visible = FALSE]
  /\ exec_status_label' = "Execution stopped"
  /\ guiStopped' = TRUE
  /\ UNCHANGED << guiAlive, current_script_path, guiQueue, gwResult,
                  guiNotified, guiRuns >>

\* ----------------------------------------------------- Sandbox: spawn
\* a script is a sequence of calls of print and of spawn; the function handed
\* to spawn prints twice, or prints once and then raises
MaxSpawnScriptLen == 3

SpawnStatements == {"print", "spawn(printer)", "spawn(failing)"}

SpawnScripts ==
  UNION {[1..n -> SpawnStatements] : n \in 1..MaxSpawnScriptLen}

FunctionBody(statement) ==
  IF statement = "spawn(printer)" THEN << "print", "print" >>
  ELSE << "print", "error" >>

MainThread == 0

VARIABLES
  spScript,      \* the script being run
  spPos,         \* the statement the script is at; 0 before the run
  spThreads,     \* the threads _safe_spawn started: body, position, failed
  spTrace,       \* which thread ran a statement, whether the script had ended
  spRaised       \* an error of a spawned function reached the script

spawnVars == << spScript, spPos, spThreads, spTrace, spRaised >>

SpawnInit ==
  /\ spScript = << >>
  /\ spPos = 0
  /\ spThreads = << >>
  /\ spTrace = << >>
  /\ spRaised = FALSE

ScriptEnded == spPos > Len(spScript)

\* Sandbox.execute starts the script
SpawnRun ==
  /\ spPos = 0
  /\ spScript' \in SpawnScripts
  /\ spPos' = 1
  /\ UNCHANGED << spThreads, spTrace, spRaised >>

Ran(thread) == [thread |-> thread, afterEnd |-> ScriptEnded]

\* the script calls print: _safe_print on the thread of the script
ScriptPrint ==
  /\ spPos > 0 /\ ~ScriptEnded
  /\ spScript[spPos] = "print"
  /\ spTrace' = Append(spTrace, Ran(MainThread))
  /\ spPos' = spPos + 1
  /\ UNCHANGED << spScript, spThreads, spRaised >>

\* the script calls spawn(f): _safe_spawn starts a daemon thread with target
\* f and returns None
SafeSpawn ==
  /\ spPos > 0 /\ ~ScriptEnded
  /\ spScript[spPos] # "print"
  /\ spThreads' = Append(spThreads,
       [body |-> FunctionBody(spScript[spPos]), pos |-> 1, failed |-> FALSE])
  /\ spPos' = spPos + 1
  /\ UNCHANGED << spScript, spTrace, spRaised >>

ThreadRunning(t) ==
  ~spThreads[t].failed /\ spThreads[t].pos <= Len(spThreads[t].body)

\* a started thread runs the next statement of its function; an error ends
\* the thread and stays in it
ThreadStep(t) ==
  /\ ThreadRunning(t)
  /\ IF spThreads[t].body[spThreads[t].pos] = "error"
       THEN /\ spThreads' = [spThreads EXCEPT ![t].failed = TRUE]
            /\ UNCHANGED spTrace
       ELSE /\ spThreads' = [spThreads EXCEPT ![t].pos = @ + 1]
            /\ spTrace' = Append(spTrace, Ran(t))
  /\ UNCHANGED << spScript, spPos, spRaised >>

\* the run is over and the threads have ended
SpawnDone ==
  /\ ScriptEnded /\ spPos > 0
  /\ \A t \in 1..Len(spThreads) : ~ThreadRunning(t)
  /\ spScript' = << >>
  /\ spPos' = 0
  /\ spThreads' = << >>
  /\ spTrace' = << >>
  /\ spRaised' = FALSE

\* ---------------------------------------------- helpers: retry_operation
MaxRetries == 2

\* the values of max_retries and delay the callers pass
RetryCounts == -1..MaxRetries

RetryDelays == {1, 3}

\* what a call of operation does: it returns, raises an Exception, or raises
\* what is no Exception
OperationOutcomes ==
  {"returns", "raises ValueError", "raises OSError",
   "raises KeyboardInterrupt"}

\* except Exception catches these
IsException(outcome) == outcome \in {"raises ValueError", "raises OSError"}

\* a sleep after any failed attempt, the last one too
SleepsAfterEvery(attempt, max_retries) == attempt <= max_retries

\* retry_operation: if attempt < max_retries
SleepsAfter(attempt, max_retries) == attempt < max_retries

\* retry_operation: delay * (2 ** attempt)
Backoff(delay, attempt) == delay * (2 ^ attempt)

VARIABLES
  ryPc,          \* where retry_operation stands
  ryMax,         \* max_retries
  ryDelay,       \* delay
  ryAttempt,     \* the loop variable
  ryCalls,       \* the outcome of each call of operation so far
  rySleeps,      \* the argument of each time.sleep so far
  ryLast,        \* last_exception: the call that raised it, 0 for None
  ryOut          \* what retry_operation returned or raised

retryVars ==
  << ryPc, ryMax, ryDelay, ryAttempt, ryCalls, rySleeps, ryLast, ryOut >>

NoOutcome == [kind |-> "none", of |-> 0]

RetryInit ==
  /\ ryPc = "idle"
  /\ ryMax = 0
  /\ ryDelay = 1
  /\ ryAttempt = 0
  /\ ryCalls = << >>
  /\ rySleeps = << >>
  /\ ryLast = 0
  /\ ryOut = NoOutcome

\* retry_operation is called: last_exception = None, and the loop is entered
retry_operation ==
  /\ ryPc = "idle"
  /\ ryMax' \in RetryCounts
  /\ ryDelay' \in RetryDelays
  /\ ryAttempt' = 0
  /\ ryPc' = "loop"
  /\ UNCHANGED << ryCalls, rySleeps, ryLast, ryOut >>

\* one turn of the loop up to the sleep: return operation(), or the except
\* clause
RetryAttempt ==
  /\ ryPc = "loop" /\ ryAttempt < ryMax + 1
  /\ \E outcome \in OperationOutcomes :
       /\ ryCalls' = Append(ryCalls, outcome)
       /\ IF outcome = "returns"
            THEN /\ ryOut' = [kind |-> "returned", of |-> Len(ryCalls) + 1]
                 /\ ryPc' = "over"
                 /\ UNCHANGED << ryLast, ryAttempt >>
          ELSE IF ~IsException(outcome)
            THEN /\ ryOut' = [kind |-> "raised", of |-> Len(ryCalls) + 1]
                 /\ ryPc' = "over"
                 /\ UNCHANGED << ryLast, ryAttempt >>
          ELSE /\ ryLast' = Len(ryCalls) + 1
               /\ IF SleepsAfter(ryAttempt, ryMax)
                    THEN ryPc' = "sleep" /\ UNCHANGED ryAttempt
                    ELSE ryPc' = "loop" /\ ryAttempt' = ryAttempt + 1
               /\ UNCHANGED ryOut
  /\ UNCHANGED << ryMax, ryDelay, rySleeps >>

\* time.sleep(delay * (2 ** attempt)), and the next turn
RetrySleep ==
  /\ ryPc = "sleep"
  /\ rySleeps' = Append(rySleeps, Backoff(ryDelay, ryAttempt))
  /\ ryAttempt' = ryAttempt + 1
  /\ ryPc' = "loop"
  /\ UNCHANGED << ryMax, ryDelay, ryCalls, ryLast, ryOut >>

\* raise last_exception; raise None is a TypeError
RetryRaise ==
  /\ ryPc = "loop" /\ ryAttempt >= ryMax + 1
  /\ ryOut' = IF ryLast = 0 THEN [kind |-> "raised TypeError", of |-> 0]
              ELSE [kind |-> "raised", of |-> ryLast]
  /\ ryPc' = "over"
  /\ UNCHANGED << ryMax, ryDelay, ryAttempt, ryCalls, rySleeps, ryLast >>

\* the caller goes on
RetryDone ==
  /\ ryPc = "over"
  /\ ryPc' = "idle"
  /\ ryMax' = 0
  /\ ryDelay' = 1
  /\ ryAttempt' = 0
  /\ ryCalls' = << >>
  /\ rySleeps' = << >>
  /\ ryLast' = 0
  /\ ryOut' = NoOutcome

\* ------------------------------------------------------------ Config
\* self.default_config as __init__ builds it: some keys of three groups
BuiltInDefaults ==
  [executor |-> [max_execution_time |-> 30, enable_sandbox |-> TRUE],
   ai |-> [default_model |-> "mistral"],
   security |-> [bypass_level |-> "medium"]]

ConfigGroups == DOMAIN BuiltInDefaults

\* the value a caller sets a key to
OtherValue ==
  [executor |-> [max_execution_time |-> 5, enable_sandbox |-> FALSE],
   ai |-> [default_model |-> "deepseek"],
   security |-> [bypass_level |-> "high"]]

\* a dict of one group with some of its keys set to other values
GroupUpdates(g) ==
  {[k \in keys |-> OtherValue[g][k]] : keys \in SUBSET DOMAIN OtherValue[g]}

\* the documents config.yaml can hold: some groups, some keys of each
UserDocuments ==
  UNION {{doc \in [groups -> UNION {GroupUpdates(g) : g \in groups}] :
            \A g \in groups : doc[g] \in GroupUpdates(g)} :
         groups \in SUBSET ConfigGroups}

VARIABLES
  cfPc,          \* "new" before the Config object is made, else the last call
  cfDefault,     \* what self.default_config holds
  cfConfig,      \* what self.config holds
  cfShared,      \* the groups whose dict in self.config is the very dict
                 \* object in self.default_config
  cfFile         \* config.yaml: "absent", "unreadable" or "document", and
                 \* the document

configVars == << cfPc, cfDefault, cfConfig, cfShared, cfFile >>

ConfigInit ==
  /\ cfPc = "new"
  /\ cfDefault = BuiltInDefaults
  /\ cfConfig = BuiltInDefaults
  /\ cfShared = {}
  /\ cfFile = [state |-> "absent", data |-> << >>]

\* _merge_configs: a group the user document gives is a new dict, the copy of
\* the default's with the user's keys on top; any other group of the result
\* is the dict object of default
MergeConfigs(default, user) ==
  [g \in DOMAIN default |->
     IF g \in DOMAIN user
       THEN [k \in DOMAIN default[g] \cup DOMAIN user[g] |->
               IF k \in DOMAIN user[g] THEN user[g][k] ELSE default[g][k]]
     ELSE default[g]]

MergedShared(default, user) == DOMAIN default \ DOMAIN user

Saved(config) == [state |-> "document", data |-> config]

\* Config(): __init__ with load_config; dict.copy() copies the outer dict
\* only
ConfigNew ==
  /\ cfPc = "new"
  /\ \/ /\ cfFile' = Saved(cfDefault)
        /\ cfConfig' = cfDefault
        /\ cfShared' = ConfigGroups
     \/ /\ cfFile' = [state |-> "unreadable", data |-> << >>]
        /\ cfConfig' = cfDefault
        /\ cfShared' = ConfigGroups
     \/ \E user \in UserDocuments :
          /\ cfFile' = Saved(user)
          /\ cfConfig' = MergeConfigs(cfDefault, user)
          /\ cfShared' = MergedShared(cfDefault, user)
  /\ cfPc' = "loaded"
  /\ UNCHANGED cfDefault

\* the dict of group g in self.config gets the keys of updates; the dict of
\* the group in self.default_config gets them too when it is the same object
Mutated(g, updates) ==
  LET changed ==
        [k \in DOMAIN cfConfig[g] |->
           IF k \in DOMAIN updates THEN updates[k] ELSE cfConfig[g][k]]
  IN /\ cfConfig' = [cfConfig EXCEPT ![g] = changed]
     /\ cfDefault' = IF g \in cfShared
                       THEN [cfDefault EXCEPT ![g] = changed]
                     ELSE cfDefault
     /\ cfFile' = Saved([cfConfig EXCEPT ![g] = changed])

\* set("group.key", value), with save_config
ConfigSet ==
  /\ cfPc # "new"
  /\ \E g \in ConfigGroups : \E k \in DOMAIN cfConfig[g] :
       \E value \in {BuiltInDefaults[g][k], OtherValue[g][k]} :
         Mutated(g, [key \in {k} |-> value])
  /\ cfPc' = "set"
  /\ UNCHANGED cfShared

\* update_executor_config, update_ai_config, update_security_config
ConfigUpdate ==
  /\ cfPc # "new"
  /\ \E g \in ConfigGroups : \E updates \in GroupUpdates(g) :
       Mutated(g, updates)
  /\ cfPc' = "update"
  /\ UNCHANGED cfShared

\* reset_to_defaults: self.config = self.default_config.copy(), saved
reset_to_defaults ==
  /\ cfPc # "new"
  /\ cfConfig' = cfDefault
  /\ cfShared' = ConfigGroups
  /\ cfFile' = Saved(cfDefault)
  /\ cfPc' = "reset"
  /\ UNCHANGED cfDefault

\* get("group.key")
ConfigGet(g, k) == cfConfig[g][k]

\* ------------------------------------- ExecutorCore: execution statistics
\* execute_script and clear_execution_stats as far as they touch
\* self.execution_stats; d[k] += 1 is a load of d[k] and a store to the same
\* dict object, and another thread can run in between
MaxStatCalls == 2

MaxStatClears == 1

StatThreads == {1, 2}

\* seconds an execution can take
ElapsedChoices == {1, 2}

ZeroStats ==
  [total_executions |-> 0, successful_executions |-> 0,
   failed_executions |-> 0, total_execution_time |-> 0]

VARIABLES
  stRuntime,     \* self.lua_runtime: "ready" or "none"
  stStats,       \* the dict self.execution_stats refers to
  stDict,        \* which dict object that is: the number of clears so far
  stPc,          \* per thread: where its execute_script call stands
  stField,       \* per thread: the key of the += under way
  stLoaded,      \* per thread: the value loaded, and the dict it came from
  stElapsed,     \* per thread: execution_time of the call
  stCalls,       \* calls started so far
  stFinished     \* calls that returned or raised since the last clear, and
                 \* the seconds of those that returned

statVars ==
  << stRuntime, stStats, stDict, stPc, stField, stLoaded, stElapsed,
     stCalls, stFinished >>

NoneFinished == [returned |-> 0, raised |-> 0, seconds |-> 0]

StatsInit ==
  /\ stRuntime = "ready"
  /\ stStats = ZeroStats
  /\ stDict = 0
  /\ stPc = [t \in StatThreads |-> "idle"]
  /\ stField = [t \in StatThreads |-> "total_executions"]
  /\ stLoaded = [t \in StatThreads |-> [value |-> 0, dict |-> 0]]
  /\ stElapsed = [t \in StatThreads |-> 0]
  /\ stCalls = 0
  /\ stFinished = NoneFinished

\* shutdown: self.lua_runtime = None
StatShutdown ==
  /\ stRuntime = "ready"
  /\ stRuntime' = "none"
  /\ UNCHANGED << stStats, stDict, stPc, stField, stLoaded, stElapsed,
                  stCalls, stFinished >>

\* execute_script is entered: RuntimeError without a runtime, else the += of
\* total_executions begins
StatBegin(t) ==
  /\ stPc[t] = "idle" /\ stCalls < MaxStatCalls
  /\ stCalls' = stCalls + 1
  /\ IF stRuntime = "none"
       THEN /\ stFinished' = [stFinished EXCEPT !.raised = @ + 1]
            /\ UNCHANGED << stPc, stField >>
       ELSE /\ stPc' = [stPc EXCEPT ![t] = "load"]
            /\ stField' = [stField EXCEPT ![t] = "total_executions"]
            /\ UNCHANGED stFinished
  /\ UNCHANGED << stRuntime, stStats, stDict, stLoaded, stElapsed >>

\* the left half of +=: self.execution_stats[key] is read
StatLoad(t) ==
  /\ stPc[t] = "load"
  /\ stLoaded' = [stLoaded EXCEPT
                    ![t] = [value |-> stStats[stField[t]], dict |-> stDict]]
  /\ stPc' = [stPc EXCEPT ![t] = "store"]
  /\ UNCHANGED << stRuntime, stStats, stDict, stField, stElapsed, stCalls,
                  stFinished >>

\* what += adds for a key
Increment(t) ==
  IF stField[t] = "total_execution_time" THEN stElapsed[t] ELSE 1

\* the right half of +=: the sum is stored in the dict that was read, which
\* is no longer self.execution_stats after a clear; then the call goes on
StatStore(t) ==
  /\ stPc[t] = "store"
  /\ stStats' = IF stLoaded[t].dict = stDict
                  THEN [stStats EXCEPT
                          ![stField[t]] = stLoaded[t].value + Increment(t)]
                ELSE stStats
  /\ IF stField[t] = "total_executions"
       THEN /\ stPc' = [stPc EXCEPT ![t] = "try"]
            /\ UNCHANGED << stField, stFinished >>
     ELSE IF stField[t] = "successful_executions"
       THEN /\ stPc' = [stPc EXCEPT ![t] = "load"]
            /\ stField' = [stField EXCEPT ![t] = "total_execution_time"]
            /\ UNCHANGED stFinished
     ELSE IF stField[t] = "total_execution_time"
       THEN /\ stPc' = [stPc EXCEPT ![t] = "idle"]
            /\ stFinished' = [stFinished EXCEPT
                                !.returned = @ + 1,
                                !.seconds = @ + stElapsed[t]]
            /\ UNCHANGED stField
     ELSE /\ stPc' = [stPc EXCEPT ![t] = "idle"]
          /\ stFinished' = [stFinished EXCEPT !.raised = @ + 1]
          /\ UNCHANGED stField
  /\ UNCHANGED << stRuntime, stDict, stLoaded, stElapsed, stCalls >>

\* the body of the try block ends: at line 171 after the execution, or in
\* the except clause at line 183
StatOutcome(t) ==
  /\ stPc[t] = "try"
  /\ stElapsed' \in {[stElapsed EXCEPT ![t] = e] : e \in ElapsedChoices}
  /\ stField' \in {[stField EXCEPT ![t] = f] :
                     f \in {"successful_executions", "failed_executions"}}
  /\ stPc' = [stPc EXCEPT ![t] = "load"]
  /\ UNCHANGED << stRuntime, stStats, stDict, stLoaded, stCalls, stFinished >>

\* clear_execution_stats: self.execution_stats is a new dict
StatClear ==
  /\ stDict < MaxStatClears
  /\ stStats' = ZeroStats
  /\ stDict' = stDict + 1
  /\ stFinished' = NoneFinished
  /\ UNCHANGED << stRuntime, stPc, stField, stLoaded, stElapsed, stCalls >>

\* ------------------------------------------------------------ specifications

\* the state of the components that follow the executors and the logger
moreVars == << fileVars, routeVars, aiVars, glVars, bypassVars,
     validatorVars, delimiterVars, extractVars, cryptoVars, liteConfigVars,
     cliVars, guiVars, spawnVars, retryVars, configVars, statVars >>

\* none of them in use
MoreIdle == FilesInit /\ RouteIdle /\ AiInit /\ GlInit /\ BypassInit /\
  ValidatorInit /\ DelimitersInit /\ ExtractInit /\ CryptoInit /\
  LiteConfigInit /\ CliInit /\ GuiInit /\ SpawnInit /\ RetryInit /\
  ConfigInit /\ StatsInit

\* the state of the executors and the logger
execVars ==
  << callers, ncalls, luaVersion, coreVars, envVars, sbVars, liteVars,
     logVars >>

vars == << sut, execVars, moreVars >>

Min(S) == CHOOSE x \in S : \A y \in S : x <= y

Timers == CoreTimers \cup SbTimers \cup LiteTimers

\* time passes, up to the moment the next timer runs out: no step is due
\* before, and every step due then is taken before more time passes
Tick ==
  /\ ~CoreUrgent /\ ~SbUrgent /\ ~LiteUrgent
  /\ Timers # {}
  /\ CoreTick(Min(Timers)) /\ SbTick(Min(Timers)) /\ LiteTick(Min(Timers))
  /\ UNCHANGED << sut, callers, ncalls, luaVersion, envVars, logVars, moreVars >>

\* the frame of a step of this component: it is the one in use, and the
\* others are left alone
CoreFrame ==
  /\ sut = "core"
  /\ UNCHANGED << sut, callers, luaVersion, envVars, sbVars, liteVars, logVars,
                  moreVars >>

CoreNext ==
  \/ \E enabled \in BOOLEAN , t \in callers : set_sandbox_mode(t, enabled) /\ CoreFrame
  \/ \E enabled \in BOOLEAN , t \in callers : set_bypass_mode(t, enabled) /\ CoreFrame
  \/ \E timeout \in TimeoutChoices , t \in callers : set_execution_timeout(t, timeout) /\ CoreFrame
  \/ \E t \in callers : clear_execution_stats(t) /\ CoreFrame
  \/ \E t \in callers : shutdown(t) /\ CoreFrame
  \/ \E t \in callers, script \in Scripts : ExecBegin(t, script) /\ CoreFrame
  \/ \E t \in callers : ExecValidate(t) /\ CoreFrame
  \/ \E t \in callers : ExecBypass(t) /\ CoreFrame
  \/ \E t \in callers : ExecDispatch(t) /\ CoreFrame
  \/ \E t \in callers : ExecWorker(t) /\ CoreFrame
  \/ \E w \in cabandoned : ExecAbandoned(w) /\ CoreFrame
  \/ \E t \in callers : ExecJoin(t) /\ CoreFrame
  \/ \E t \in callers : ExecAlive(t) /\ CoreFrame
  \/ \E t \in callers : ExecSuccess(t) /\ CoreFrame
  \/ \E t \in callers : ExecExcept(t) /\ CoreFrame
  \/ \E t \in callers : ExecReturn(t) /\ CoreFrame

\* the frame of a step of this component: it is the one in use, and the
\* others are left alone
SbFrame ==
  /\ sut = "sandbox"
  /\ UNCHANGED << sut, callers, luaVersion, coreVars, envVars, liteVars, logVars,
                  moreVars >>

SbNext ==
  \/ \E script \in SandboxScripts : SbExecute(script) /\ SbFrame
  \/ SbWorker /\ SbFrame
  \/ \E w \in sabandoned : SbAbandoned(w) /\ SbFrame
  \/ SbJoin /\ SbFrame
  \/ SbAlive /\ SbFrame
  \/ SbTimeout /\ SbFrame
  \/ SbStop /\ SbFrame
  \/ SbCleanup /\ SbFrame

\* the frame of a step of this component: it is the one in use, and the
\* others are left alone
LiteFrame ==
  /\ sut = "lite"
  /\ UNCHANGED << sut, callers, luaVersion, coreVars, envVars, sbVars, logVars,
                  moreVars >>

LiteNext ==
  \/ \E code \in LiteScripts : LiteExecute(code) /\ LiteFrame
  \/ LiteValidate /\ LiteFrame
  \/ LiteRun /\ LiteFrame
  \/ LiteReturn /\ LiteFrame

\* the frame of a step of this component: it is the one in use, and the
\* others are left alone
EnvFrame ==
  /\ sut = "env"
  /\ UNCHANGED << sut, callers, ncalls, coreVars, sbVars, liteVars, logVars,
                  moreVars >>

EnvNext ==
  \/ EnvAssign /\ EnvFrame
  \/ EnvHandOver /\ EnvFrame

\* the frame of a step of this component: it is the one in use, and the
\* others are left alone
LogFrame ==
  /\ sut = "logger"
  /\ UNCHANGED << callers, sut, ncalls, luaVersion, coreVars, envVars, sbVars,
                  liteVars, moreVars >>

LogNext ==
  \/ NewLogger /\ LogFrame
  \/ \E t \in LogThreads, k \in 1..MaxLoggers, op \in DOMAIN LogOps,
         size \in {SmallRecord, BigRecord} :
       LogAcquire(t, k, op, size) /\ LogFrame
  \/ \E t \in LogThreads : LogEmit(t) /\ LogFrame
  \/ \E t \in LogThreads : LogCheck(t) /\ LogFrame
  \/ \E t \in LogThreads : LogShift(t) /\ LogFrame
  \/ \E t \in LogThreads : LogBackup(t) /\ LogFrame
  \/ \E t \in LogThreads : LogTouch(t) /\ LogFrame
  \/ \E t \in LogThreads : LogRelease(t) /\ LogFrame
  \/ \E t \in LogThreads : LogReturn(t) /\ LogFrame

\* the state every specification starts from, but for the object it drives
InitRest ==
  /\ ncalls = 0
  /\ luaVersion \in LuaVersions
  /\ MoreIdle

\* one caller on an ExecutorCore as constructed
InitCore ==
  /\ sut = "core" /\ callers = {1} /\ InitRest
  /\ CoreInit /\ execution_timeout = DefaultExecutionTimeout
  /\ SbIdle /\ LiteInit /\ EnvIdle /\ LogIdle

SpecCore == InitCore /\ [][CoreNext \/ Tick]_vars

\* the scripts two concurrent callers submit
ConcurrentScripts == { <<"print">>, <<"delay", "setg">>, <<"spin">> }

\* two threads that call execute_script and shutdown on one ExecutorCore

Core2Next ==
  \/ \E t \in callers : shutdown(t) /\ CoreFrame
  \/ \E t \in callers, script \in ConcurrentScripts : ExecBegin(t, script) /\ CoreFrame
  \/ \E t \in callers : ExecValidate(t) /\ CoreFrame
  \/ \E t \in callers : ExecBypass(t) /\ CoreFrame
  \/ \E t \in callers : ExecDispatch(t) /\ CoreFrame
  \/ \E t \in callers : ExecWorker(t) /\ CoreFrame
  \/ \E w \in cabandoned : ExecAbandoned(w) /\ CoreFrame
  \/ \E t \in callers : ExecJoin(t) /\ CoreFrame
  \/ \E t \in callers : ExecAlive(t) /\ CoreFrame
  \/ \E t \in callers : ExecSuccess(t) /\ CoreFrame
  \/ \E t \in callers : ExecExcept(t) /\ CoreFrame
  \/ \E t \in callers : ExecReturn(t) /\ CoreFrame

\* two callers on an ExecutorCore after set_execution_timeout(1)
InitCore2 ==
  /\ sut = "core" /\ callers = {1, 2} /\ InitRest
  /\ CoreInit /\ execution_timeout = 1
  /\ SbIdle /\ LiteInit /\ EnvIdle /\ LogIdle

SpecCore2 == InitCore2 /\ [][Core2Next \/ Tick]_vars

\* one caller on an ExecutorCore as constructed, or on the lighter executor
InitCoreLite ==
  /\ sut \in {"core", "lite"} /\ callers = {1} /\ InitRest
  /\ CoreInit /\ execution_timeout = DefaultExecutionTimeout
  /\ SbIdle /\ LiteInit /\ EnvIdle /\ LogIdle

SpecCoreLite == InitCoreLite /\ [][CoreNext \/ LiteNext \/ Tick]_vars

\* a Sandbox as constructed, or one caller on an ExecutorCore as constructed
InitGuard ==
  /\ callers = {1} /\ InitRest
  /\ CoreInit /\ execution_timeout = DefaultExecutionTimeout
  /\ \/ sut = "sandbox" /\ SbInit
     \/ sut = "core" /\ SbIdle
  /\ LiteInit /\ EnvIdle /\ LogIdle

SpecGuard == InitGuard /\ [][SbNext \/ CoreNext \/ Tick]_vars

InitSandbox ==
  /\ sut = "sandbox" /\ callers = {1} /\ InitRest
  /\ CoreInit /\ execution_timeout = DefaultExecutionTimeout
  /\ SbInit /\ LiteInit /\ EnvIdle /\ LogIdle

SpecSandbox == InitSandbox /\ [][SbNext \/ Tick]_vars

InitLite ==
  /\ sut = "lite" /\ callers = {1} /\ InitRest
  /\ CoreInit /\ execution_timeout = DefaultExecutionTimeout
  /\ SbIdle /\ LiteInit /\ EnvIdle /\ LogIdle

SpecLite == InitLite /\ [][LiteNext \/ Tick]_vars

InitEnv ==
  /\ sut = "env" /\ callers = {} /\ InitRest
  /\ CoreInit /\ execution_timeout = DefaultExecutionTimeout
  /\ SbIdle /\ LiteInit /\ EnvInit /\ LogIdle

SpecEnv == InitEnv /\ [][EnvNext]_vars

\* two threads that log through the ExecutionLogger objects of the process
InitLog ==
  /\ sut = "logger" /\ callers = {} /\ InitRest
  /\ CoreInit /\ execution_timeout = DefaultExecutionTimeout
  /\ SbIdle /\ LiteInit /\ EnvIdle /\ LogIdle

SpecLog == InitLog /\ [][LogNext]_vars

\* the executors and the logger as constructed, none of them in use
ExecIdle ==
  /\ callers = {} /\ ncalls = 0 /\ luaVersion = "5.4"
  /\ CoreInit /\ execution_timeout = DefaultExecutionTimeout
  /\ SbIdle /\ LiteInit /\ EnvIdle /\ LogIdle

\* the frame of a step of this component: it is the one in use, and the
\* others are left alone
FilesFrame ==
  /\ sut = "files"
  /\ UNCHANGED << sut, execVars, routeVars, aiVars, glVars, bypassVars,
                 validatorVars, delimiterVars, extractVars, cryptoVars,
                 liteConfigVars, cliVars, guiVars, spawnVars, retryVars,
                 configVars, statVars >>

FilesNext ==
  \/ \E script_name \in ScriptNames, script_content \in ScriptBodies,
         metadata \in MetadataMaps :
       save_generated_script(script_name, script_content, metadata) /\ FilesFrame
  \/ \E script_path \in ScriptNames : load_script(script_path) /\ FilesFrame
  \/ \E script_name \in ScriptNames, io \in {"ok", "copy_fails", "unlink_fails"} :
       delete_script(script_name, io) /\ FilesFrame
  \/ \E script_name \in ScriptNames, backup_name \in BackupFiles \cup {NoName} :
       backup_script(script_name, backup_name) /\ FilesFrame
  \/ \E backup_name \in BackupFiles : restore_script(backup_name) /\ FilesFrame

\* a FileManager as constructed, over empty directories
InitFiles == sut = "files" /\ ExecIdle /\ MoreIdle

SpecFiles == InitFiles /\ [][FilesNext]_vars

RouteFrame ==
  /\ sut = "route"
  /\ UNCHANGED << sut, execVars, fileVars, aiVars, glVars, bypassVars,
                 validatorVars, delimiterVars, extractVars, cryptoVars,
                 liteConfigVars, cliVars, guiVars, spawnVars, retryVars,
                 configVars, statVars >>

RouteNext ==
  \/ RouteSelect /\ RouteFrame
  \/ RouteGateway /\ RouteFrame

\* a prompt, before it is routed
InitRoute ==
  /\ sut = "route" /\ ExecIdle
  /\ FilesInit /\ RouteInit /\ AiInit /\ GlInit /\ BypassInit /\
     ValidatorInit /\ DelimitersInit /\ ExtractInit /\ CryptoInit /\
     LiteConfigInit /\ CliInit /\ GuiInit /\ SpawnInit /\ RetryInit /\
     ConfigInit /\ StatsInit

SpecRoute == InitRoute /\ [][RouteNext]_vars

AiFrame ==
  /\ sut = "ai"
  /\ UNCHANGED << sut, execVars, fileVars, routeVars, glVars, bypassVars,
                 validatorVars, delimiterVars, extractVars, cryptoVars,
                 liteConfigVars, cliVars, guiVars, spawnVars, retryVars,
                 configVars, statVars >>

AiNext ==
  \/ \E model \in ModelArguments, answer \in {"responds", "fails"} :
       generate_roblox_script(PromptBlock, model, answer) /\ AiFrame
  \/ \E limit \in {0, 50} : get_generation_history(limit) /\ AiFrame
  \/ clear_generation_history /\ AiFrame

\* an AIInterface as constructed
InitAi == sut = "ai" /\ ExecIdle /\ MoreIdle

SpecAi == InitAi /\ [][AiNext]_vars

GlFrame ==
  /\ sut = "generate_lua"
  /\ UNCHANGED << sut, execVars, fileVars, routeVars, aiVars, bypassVars,
                 validatorVars, delimiterVars, extractVars, cryptoVars,
                 liteConfigVars, cliVars, guiVars, spawnVars, retryVars,
                 configVars, statVars >>

GlNext ==
  \/ \E goal \in Goals : generate_lua(goal) /\ GlFrame
  \/ \E answer \in Answers : CallBackend(answer) /\ GlFrame
  \/ \E answer \in Answers : CallOllama(answer) /\ GlFrame
  \/ GlReturn /\ GlFrame

\* an AIInterface of the lighter executor as constructed
InitGl == sut = "generate_lua" /\ ExecIdle /\ MoreIdle

SpecGl == InitGl /\ [][GlNext]_vars

BypassFrame ==
  /\ sut = "bypass"
  /\ UNCHANGED << sut, execVars, fileVars, routeVars, aiVars, glVars,
                 validatorVars, delimiterVars, extractVars, cryptoVars,
                 liteConfigVars, cliVars, guiVars, spawnVars, retryVars,
                 configVars, statVars >>

BypassNext ==
  \/ (\E script_content \in BypassScripts : apply_bypass(script_content))
       /\ BypassFrame
  \/ BypassLoop /\ BypassFrame
  \/ (\E name \in ObfuscatedNames, comment \in CommentLines,
         positions \in [1..3 -> CommentPositions] :
        BypassObfuscate(name, [k \in 1..3 |-> comment], positions))
       /\ BypassFrame
  \/ BypassWrap /\ BypassFrame
  \/ detect_anti_cheat /\ BypassFrame
  \/ BypassDone /\ BypassFrame

InitBypass == sut = "bypass" /\ ExecIdle /\ MoreIdle

SpecBypass == InitBypass /\ [][BypassNext]_vars

ValidatorFrame ==
  /\ sut = "validator"
  /\ UNCHANGED << sut, execVars, fileVars, routeVars, aiVars, glVars,
                 bypassVars, delimiterVars, extractVars, cryptoVars,
                 liteConfigVars, cliVars, guiVars, spawnVars, retryVars,
                 configVars, statVars >>

ValidatorNext ==
  \/ (\E script_content \in ValidatorScripts : validate_script(script_content))
       /\ ValidatorFrame
  \/ get_validation_report /\ ValidatorFrame
  \/ ValidatorDone /\ ValidatorFrame

InitValidator == sut = "validator" /\ ExecIdle /\ MoreIdle

SpecValidator == InitValidator /\ [][ValidatorNext]_vars

DelimitersFrame ==
  /\ sut = "delimiters"
  /\ UNCHANGED << sut, execVars, fileVars, routeVars, aiVars, glVars,
                 bypassVars, validatorVars, extractVars, cryptoVars,
                 liteConfigVars, cliVars, guiVars, spawnVars, retryVars,
                 configVars, statVars >>

DelimitersNext ==
  \/ (\E code \in DelimiterTexts : BuilderCheck(code)) /\ DelimitersFrame
  \/ ValidatorCheck /\ DelimitersFrame
  \/ DelimitersDone /\ DelimitersFrame

InitDelimiters == sut = "delimiters" /\ ExecIdle /\ MoreIdle

SpecDelimiters == InitDelimiters /\ [][DelimitersNext]_vars

ExtractFrame ==
  /\ sut = "extract"
  /\ UNCHANGED << sut, execVars, fileVars, routeVars, aiVars, glVars,
                 bypassVars, validatorVars, delimiterVars, cryptoVars,
                 liteConfigVars, cliVars, guiVars, spawnVars, retryVars,
                 configVars, statVars >>

ExtractNext ==
  \/ (\E ai_response \in Responses : BuilderExtract(ai_response))
       /\ ExtractFrame
  \/ LightExtract /\ ExtractFrame
  \/ BuilderExtractAgain /\ ExtractFrame
  \/ LightExtractAgain /\ ExtractFrame
  \/ ExtractDone /\ ExtractFrame

InitExtract == sut = "extract" /\ ExecIdle /\ MoreIdle

SpecExtract == InitExtract /\ [][ExtractNext]_vars

CryptoFrame ==
  /\ sut = "crypto"
  /\ UNCHANGED << sut, execVars, fileVars, routeVars, aiVars, glVars,
                 bypassVars, validatorVars, delimiterVars, extractVars,
                 liteConfigVars, cliVars, guiVars, spawnVars, retryVars,
                 configVars, statVars >>

CryptoNext ==
  \/ get_key /\ CryptoFrame
  \/ PlaceFile /\ CryptoFrame
  \/ encrypt_file /\ CryptoFrame
  \/ TamperFile /\ CryptoFrame
  \/ decrypt_file /\ CryptoFrame
  \/ encrypt_string /\ CryptoFrame
  \/ decrypt_string /\ CryptoFrame
  \/ CryptoDone /\ CryptoFrame

InitCrypto == sut = "crypto" /\ ExecIdle /\ MoreIdle

SpecCrypto == InitCrypto /\ [][CryptoNext]_vars

LiteConfigFrame ==
  /\ sut = "lite_config"
  /\ UNCHANGED << sut, execVars, fileVars, routeVars, aiVars, glVars,
                 bypassVars, validatorVars, delimiterVars, extractVars,
                 cryptoVars, cliVars, guiVars, spawnVars, retryVars,
                 configVars, statVars >>

LiteConfigNext ==
  \/ SetEnvironment /\ LiteConfigFrame
  \/ ImportConfig /\ LiteConfigFrame
  \/ WriteSettings /\ LiteConfigFrame
  \/ get_config /\ LiteConfigFrame
  \/ LiteConfigDone /\ LiteConfigFrame

InitLiteConfig == sut = "lite_config" /\ ExecIdle /\ MoreIdle

SpecLiteConfig == InitLiteConfig /\ [][LiteConfigNext]_vars

CliFrame ==
  /\ sut = "cli"
  /\ UNCHANGED << sut, execVars, fileVars, routeVars, aiVars, glVars,
                 bypassVars, validatorVars, delimiterVars, extractVars,
                 cryptoVars, liteConfigVars, guiVars, spawnVars, retryVars,
                 configVars, statVars >>

CliNext ==
  \/ CliStart /\ CliFrame
  \/ ParseArgs /\ CliFrame
  \/ RunGenerate /\ CliFrame
  \/ RunExecute /\ CliFrame
  \/ RunValidate /\ CliFrame
  \/ RunNothing /\ CliFrame
  \/ CliDone /\ CliFrame

InitCli == sut = "cli" /\ ExecIdle /\ MoreIdle

SpecCli == InitCli /\ [][CliNext]_vars

GuiFrame ==
  /\ sut = "gui"
  /\ UNCHANGED << sut, execVars, fileVars, routeVars, aiVars, glVars,
                 bypassVars, validatorVars, delimiterVars, extractVars,
                 cryptoVars, liteConfigVars, cliVars, spawnVars, retryVars,
                 configVars, statVars >>

\* the steps of the worker thread and of the event loop
GuiProgress ==
  \/ WorkerProgress /\ GuiFrame
  \/ WorkerLog /\ GuiFrame
  \/ WorkerExecute /\ GuiFrame
  \/ WorkerReport /\ GuiFrame
  \/ WorkerExcept /\ GuiFrame
  \/ GuiDeliver /\ GuiFrame

GuiNext ==
  \/ GuiLoadScript /\ GuiFrame
  \/ GuiExecuteScript /\ GuiFrame
  \/ GuiStopExecution /\ GuiFrame
  \/ GuiProgress

InitGui == sut = "gui" /\ ExecIdle /\ MoreIdle

\* a started thread runs on, and the event loop hands over what is queued
SpecGui == InitGui /\ [][GuiNext]_vars /\ WF_vars(GuiProgress)

SpawnFrame ==
  /\ sut = "spawn"
  /\ UNCHANGED << sut, execVars, fileVars, routeVars, aiVars, glVars,
                 bypassVars, validatorVars, delimiterVars, extractVars,
                 cryptoVars, liteConfigVars, cliVars, guiVars, retryVars,
                 configVars, statVars >>

SpawnNext ==
  \/ SpawnRun /\ SpawnFrame
  \/ ScriptPrint /\ SpawnFrame
  \/ SafeSpawn /\ SpawnFrame
  \/ (\E t \in 1..Len(spThreads) : ThreadStep(t)) /\ SpawnFrame
  \/ SpawnDone /\ SpawnFrame

InitSpawn == sut = "spawn" /\ ExecIdle /\ MoreIdle

SpecSpawn == InitSpawn /\ [][SpawnNext]_vars

RetryFrame ==
  /\ sut = "retry"
  /\ UNCHANGED << sut, execVars, fileVars, routeVars, aiVars, glVars,
                 bypassVars, validatorVars, delimiterVars, extractVars,
                 cryptoVars, liteConfigVars, cliVars, guiVars, spawnVars,
                 configVars, statVars >>

RetryNext ==
  \/ retry_operation /\ RetryFrame
  \/ RetryAttempt /\ RetryFrame
  \/ RetrySleep /\ RetryFrame
  \/ RetryRaise /\ RetryFrame
  \/ RetryDone /\ RetryFrame

InitRetry == sut = "retry" /\ ExecIdle /\ MoreIdle

SpecRetry == InitRetry /\ [][RetryNext]_vars

ConfigFrame ==
  /\ sut = "config"
  /\ UNCHANGED << sut, execVars, fileVars, routeVars, aiVars, glVars,
                 bypassVars, validatorVars, delimiterVars, extractVars,
                 cryptoVars, liteConfigVars, cliVars, guiVars, spawnVars,
                 retryVars, statVars >>

ConfigNext ==
  \/ ConfigNew /\ ConfigFrame
  \/ ConfigSet /\ ConfigFrame
  \/ ConfigUpdate /\ ConfigFrame
  \/ reset_to_defaults /\ ConfigFrame

InitConfig == sut = "config" /\ ExecIdle /\ MoreIdle

SpecConfig == InitConfig /\ [][ConfigNext]_vars

StatsFrame ==
  /\ sut = "stats"
  /\ UNCHANGED << sut, execVars, fileVars, routeVars, aiVars, glVars,
                 bypassVars, validatorVars, delimiterVars, extractVars,
                 cryptoVars, liteConfigVars, cliVars, guiVars, spawnVars,
                 retryVars, configVars >>

StatsNext ==
  \/ StatShutdown /\ StatsFrame
  \/ \E t \in StatThreads : StatBegin(t) /\ StatsFrame
  \/ \E t \in StatThreads : StatLoad(t) /\ StatsFrame
  \/ \E t \in StatThreads : StatStore(t) /\ StatsFrame
  \/ \E t \in StatThreads : StatOutcome(t) /\ StatsFrame
  \/ StatClear /\ StatsFrame

InitStats == sut = "stats" /\ ExecIdle /\ MoreIdle

SpecStats == InitStats /\ [][StatsNext]_vars

\* ================================================================ properties

\* seconds a timed call may overrun its timeout
Overrun == 2

\* the callers whose execute_script call is in flight: started, its outcome
\* not yet decided
InFlight == {t \in AllCallers : cpc[t] \notin {"idle", "return"}}

\* the events of a kind in a caller's record of its call
HasEvent(trace, kinds) == \E i \in 1..Len(trace) : trace[i].ev \in kinds

\* the places of the events of some kinds in a record
Places(trace, kinds) == {i \in 1..Len(trace) : trace[i].ev \in kinds}

\* in a record, validation has succeeded before every event of these kinds
ValidatedBefore(trace, kinds) ==
  \A i \in Places(trace, kinds) :
    \E j \in Places(trace, {"validate_ok"}) : j < i

\* the order of validation, rewriter and runtime in the records of the calls
\* of execute_script and of the lighter execute
C1Order ==
  /\ \A t \in AllCallers :
       /\ ValidatedBefore(ctrace[t],
            {"rewrite", "no_rewrite", "new_runtime", "thread_start"})
       /\ HasEvent(ctrace[t], {"validate_fail"}) =>
            /\ ~HasEvent(ctrace[t],
                 {"rewrite", "no_rewrite", "new_runtime", "thread_start"})
            /\ cworker[t] = NoWorker
            /\ cpc[t] \in {"except", "return"}
            /\ cresult[t] \in {"none", "ExecutionError"}
       /\ \A i \in Places(ctrace[t], {"thread_start"}) :
            \E j \in Places(ctrace[t], {"rewrite", "no_rewrite"}) : j < i
       /\ Cardinality(Places(ctrace[t], {"thread_start"})) <= 1
       /\ Cardinality(Places(ctrace[t], {"new_runtime"})) <= 1
       /\ cworker[t] # NoWorker => HasEvent(ctrace[t], {"thread_start"})
  /\ ValidatedBefore(ltrace, {"run_script"})
  /\ HasEvent(ltrace, {"validate_fail"}) =>
       /\ ~HasEvent(ltrace, {"run_script"})
       /\ lrun = NoWorker
       /\ lresult = "ValueError"
  /\ Cardinality(Places(ltrace, {"run_script"})) <= 1
  /\ lrun # NoWorker => HasEvent(ltrace, {"run_script"})

\* the step after validation: the rewriter runs if and only if bypass mode
\* is on, and it is given the script validation accepted
C1Rewrite ==
  \A t \in AllCallers :
    (cpc[t] = "bypass" /\ cpc'[t] # "bypass") =>
      /\ cpc'[t] = "dispatch"
      /\ bypass_mode <=> ctrace'[t][Len(ctrace'[t])].ev = "rewrite"
      /\ cscript'[t] = IF bypass_mode THEN ApplyBypass(cscript[t]) ELSE cscript[t]

\* C1: in execute_script and in the lighter execute, validation runs before
\* the rewriter and before any Lua runtime: a rejected script makes the call
\* fail with neither rewriter nor runtime invoked; with bypass mode on the
\* rewriter runs after validation succeeded and before the execution; the
\* runtime is started at most once per call.
C1_ValidationFirst == []C1Order /\ [][C1Rewrite]_vars

\* a rewritten script is running: validation accepted it, bypass mode was on
C1_Witness ==
  /\ sut = "core"
  /\ cpc[1] = "join"
  /\ HasEvent(ctrace[1], {"rewrite"})
  /\ cscript[1][1] = "wrapper"
  /\ cworker[1].st = "running"

\* C2: in every environment handed to a script (the four builders), each of
\* os, io, require, loadstring, dofile and debug is nil or a stand-in when
\* the script starts; none is still bound to the host library's value.
C2_HostLibraryUnreachable ==
  envHanded => \A n \in ContainedNames : env[n] # "host"

\* the timeout guards bound the wait of a call
C3Bounded ==
  /\ spc \in {"join", "alive", "join2"} =>
       swait <= max_execution_time + StopGrace
  /\ spc = "join" => swait <= max_execution_time
  /\ \A t \in AllCallers :
       cpc[t] \in {"join", "alive"} => cwait[t] <= climit[t]

\* what the guards do with a thread found running when the timeout has
\* elapsed, and only then
C3TimedOut ==
  /\ (spc = "alive" /\ sworker.st = "running") =>
       /\ swait = max_execution_time
       /\ spc' \in {"alive", "join2"}
  /\ (spc = "join2" /\ spc' # "join2") =>
       /\ spc' = "idle"
       /\ sresult' = Result(FALSE, output_buffer, "Execution timeout")
       /\ swait <= max_execution_time + StopGrace
       /\ sworker.st = "running" => sworker \in sabandoned'
  /\ (spc \notin {"join2", "idle"} /\ spc' = "idle") =>
       sresult'.error # "Execution timeout"
  /\ \A t \in AllCallers :
       /\ (cpc[t] = "alive" /\ cworker[t].st = "running" /\ cpc'[t] # "alive") =>
            /\ cwait[t] = climit[t]
            /\ cpc'[t] = "except"
            /\ cerr'[t] = "Script execution timed out"
            /\ cworker[t] \in cabandoned'
       /\ (cpc[t] = "except" /\ cpc'[t] # "except") =>
            /\ cpc'[t] = "return"
            /\ cresult'[t] = "ExecutionError"

C4_RunScriptHonoursTimeout ==
  lpc = "run" => lelapsed <= lua_timeout_seconds + Overrun

\* C5: when the script raised an error and no stop or timeout occurred,
\* Sandbox.execute does not return success=True; success=True is returned
\* only for a script that ran to completion.
C5_RaisedErrorReported ==
  (spc = "idle" /\ sresult.success /\ ~stop_flag) => sworker.st # "raised"

\* C6: every run of Sandbox.execute starts from the same initial set of
\* globals: no global made by an earlier run is there when a run starts.
C6_RunStartsFresh ==
  spc \in {"join", "alive", "join2"} => sseen = {}

\* C7: at most one run is in flight per ExecutorCore: no second run starts
\* while an earlier one has not finished.
C7_OneRunInFlight ==
  Cardinality(InFlight) <= 1
  
\* C8: every call of execute_script, in any state of the executor, has had a
\* record of its outcome written when it returns or raises: a completion
\* record, or an error record with the failure message.
C8_OutcomeLogged ==
  \A t \in AllCallers :
    cpc[t] = "return" =>
      \/ cresult[t] = "ok" /\ HasEvent(ctrace[t], {"log_completed"})
      \/ cresult[t] # "ok" /\ HasEvent(ctrace[t], {"log_error"})

\* C9: each call of a logging operation appends exactly one record line to
\* its category file, however many ExecutionLogger objects were constructed
\* before the call.
C9_OneLinePerCall ==
  \A t \in LogThreads : gpc[t] = "done" => gwrote[t] = 1

\* the thread is between two steps of a rotation of the file of category c
MidRotation(u, c) ==
  /\ Cat(u) = c
  /\ \/ gpc[u] = "shift" /\ gi[u] < max_log_files - 1
     \/ gpc[u] \in {"backup", "touch"}

\* C10: every write to a category file happens under one lock shared by all
\* its writers, whichever ExecutionLogger they go through: no thread writes
\* to a file while another is between the steps of a rotation of that file.
C10_NoWriteDuringRotation ==
  [][\A t \in LogThreads :
       (gpc[t] = "emit" /\ gpc'[t] # "emit") =>
         \A u \in LogThreads \ {t} : ~MidRotation(u, Cat(t))]_vars

\* the paths of a category that hold a file, and its backups among them
Linked(c) == {p \in Paths : dir[c][p] # NoFile}

Backups(c) == Linked(c) \ {0}

\* the records of logging calls in the file at a path
RecordsAt(c, p) == files[c][dir[c][p]].recs \ {0}

\* C11: log rotation keeps at most 5 numbered backups per category, ordered
\* from the newest file (the live one, then backup 1) to the oldest
\* (backup 5), and no record of a logging call is present in two files of
\* the category.
C11_RotationKeepsBackups ==
  \A c \in Categories :
    /\ Cardinality(Backups(c)) <= max_log_files
    /\ \A p, q \in Linked(c) : p < q => dir[c][p] > dir[c][q]
    /\ \A p, q \in Linked(c) : p # q => RecordsAt(c, p) \cap RecordsAt(c, q) = {}

\* C12: load_script on the file written by save_generated_script(name, B, M)
\* with a non-empty M of string values returns a body equal to B and a
\* metadata map that has every key of M with its original value.
C12_StorageRoundTrip ==
  ( /\ fmResult.op = "load_script"
    /\ fmResult.raised = "none"
    /\ fmWritten[fmResult.name].metadata # NoMetadata )
  => LET saved == fmWritten[fmResult.name] IN
       /\ fmResult.content = saved.body
       /\ \A i \in 1..Len(saved.metadata) :
            /\ saved.metadata[i][1] \in DOMAIN fmResult.metadata
            /\ fmResult.metadata[saved.metadata[i][1]] = Str(saved.metadata[i][2])

\* C13: a script absent because of delete_script(name) has its text at
\* deletion in <name>.backup; when the backup copy fails the original stays;
\* deleting a name that does not exist reports a NotFound failure.
C13_BackupBeforeDelete ==
  /\ \A n \in ScriptFiles :
       (~Exists(scriptsDir, n) /\ fmDeleted[n] # Absent)
         => backupDir[BackupName(n)] = fmDeleted[n]
  /\ (fmResult.op = "delete_script" /\ fmResult.existed
        /\ fmResult.io = "copy_fails")
       => Exists(scriptsDir, fmResult.name)
  /\ (fmResult.op = "delete_script" /\ ~fmResult.existed)
       => fmResult.raised = "FileNotFoundError"

\* the prompt, in lower case, has one of the keywords
Mentions(keywords) == AnyKeyword(ToLower(rtPrompt), keywords)

\* the model a router with these two keyword sets has to choose: the code
\* specialist comes first, then the second specialist, then the default
RoutedBy(model, codeWords, repoWords) ==
  /\ model = "deepseek" <=> Mentions(codeWords)
  /\ model = "starcoder2" <=> (~Mentions(codeWords) /\ Mentions(repoWords))
  /\ model = "mistral" <=> (~Mentions(codeWords) /\ ~Mentions(repoWords))

\* C16: both routers follow one precedence over the keywords python /
\* automation / scripting (deepseek) and repo / multi-file / github / complex
\* (starcoder2), mistral otherwise, and so agree on every prompt.
C16_SameRoutingEverywhere ==
  (rtSelected # "" /\ rtRouted # "") =>
    /\ RoutedBy(rtSelected, {KwPython, KwAutomation, KwScripting},
                {KwRepo, KwMultiFile, KwGithub, KwComplex})
    /\ RoutedBy(rtRouted, {KwPython, KwAutomation, KwScripting},
                {KwRepo, KwMultiFile, KwGithub, KwComplex})
    /\ rtSelected = rtRouted

\* the history is the most recent stored entries, at most 100 of them, in
\* the order they were stored
C14Recent ==
  /\ Len(generation_history) <= HistoryCap
  /\ generation_history = LastOf(aiStored, HistoryCap)

\* a step leaves the history as it is, empties it, or appends one entry at
\* the end and drops at most the oldest one; a failed generation leaves it
C14AppendOnly ==
  /\ \/ generation_history' = generation_history
     \/ generation_history' = << >>
     \/ /\ Len(generation_history') >= 1
        /\ generation_history'[Len(generation_history')].id = aiCount + 1
        /\ \E drop \in {0, 1} :
             SubSeq(generation_history', 1, Len(generation_history') - 1)
               = SubSeq(generation_history, 1 + drop, Len(generation_history))
  /\ (aiResult'.op = "generate_roblox_script" /\ aiResult'.raised # "none")
       => generation_history' = generation_history

\* C14: generation_history holds at most 100 entries, exactly the most recent
\* successful generations in order; entries are only appended at the end and
\* dropped from the old end or all cleared, and a failed generation adds none.
C14_HistoryCapped == []C14Recent /\ [][C14AppendOnly]_vars

\* more than 100 generations have been stored and the oldest ones dropped
C14_Witness ==
  /\ Len(aiStored) > HistoryCap
  /\ Len(generation_history) = HistoryCap
  /\ generation_history[1].id = aiStored[Len(aiStored) - HistoryCap + 1].id

\* C15: generate_lua contacts the gateway first and the inference server
\* only after the gateway call failed, and then once; it returns the response
\* of the first call that succeeds, and raises one error naming both
\* failures only when both calls failed.
C15_SingleFallback ==
  /\ glContacts \in { << >>, << "backend" >>, << "backend", "ollama" >> }
  /\ glContacts = << "backend", "ollama" >> => backend_error # "none"
  /\ glpc = "ollama" => (backend_error # "none" /\ glResult = NoGlResult)
  /\ glpc = "done" =>
       \/ /\ glResult.kind = "returned" /\ glResult.from = "backend"
          /\ glContacts = << "backend" >> /\ backend_error = "none"
       \/ /\ glResult.kind = "returned" /\ glResult.from = "ollama"
          /\ glContacts = << "backend", "ollama" >>
       \/ /\ glResult.kind = "RuntimeError"
          /\ glContacts = << "backend", "ollama" >>
          /\ glResult.backend = backend_error /\ glResult.backend # "none"
          /\ glResult.ollama \in {a.text : a \in {b \in Answers : ~b.ok}}

\* the gateway call failed and the inference server answered
C15_Witness ==
  /\ glpc = "done" /\ glContacts = << "backend", "ollama" >>
  /\ backend_error = "Timeout"
  /\ glResult.kind = "returned" /\ glResult.text = "print(1)"

\* C17: when apply_bypass rewrote the reflection calls of a script, the
\* detection run on the returned text finds nothing of the vm_detection
\* category, the returned text is strictly longer than the script, and it
\* holds the header marker of the safety wrapper.
C17_RewriteValidity ==
  (bppc = "checked" /\ "vm_detection" \in bpDetected)
    => /\ "vm_detection" \notin bpFound
       /\ Len(bpModified) > Len(bpScript)
       /\ HasSub(bpModified, HeaderMarker)

\* the delimiters of a text, in order
IsDelimiter(ch) == ch \in {"(", ")", "[", "]", "{", "}"}

DelimitersOf(text) == SelectSeq(text, IsDelimiter)

\* a sequence of delimiters is properly nested when taking out an opening
\* delimiter with its own closing delimiter right after it, again and again,
\* leaves nothing
RECURSIVE Cancels(_)
Cancels(d) ==
  IF d = << >> THEN TRUE
  ELSE LET pairs == {i \in 1..(Len(d) - 1) :
                       << d[i], d[i + 1] >>
                         \in {<< "(", ")" >>, << "[", "]" >>, << "{", "}" >>}}
       IN  IF pairs = {} THEN FALSE
           ELSE LET i == CHOOSE p \in pairs : TRUE
                IN  Cancels(SubSeq(d, 1, i - 1) \o SubSeq(d, i + 2, Len(d)))

ProperlyNested(text) == Cancels(DelimitersOf(text))

OsExecuteScript ==
  << "o", "s", ".", "e", "x", "e", "c", "u", "t", "e", "(", "\"", "r", "m",
     " ", "-", "r", "f", " ", "/", "\"", ")" >>

CleanExample ==
  << "l", "o", "c", "a", "l", " ", "x", " ", "=", " ", "1", "\n", "p", "r",
     "i", "n", "t", "(", "x", ")", "\n", "p", "r", "i", "n", "t", "(",
     "\"", "d", "o", "n", "e", "\"", ")" >>

\* a script without a dangerous, infinite-loop, excessive-iteration or
\* denylisted token
NoBadToken(script) ==
  /\ Hits(DangerousPatterns, script) = {}
  /\ \A h \in Hits(SuspiciousPatterns, script) :
       h[1] \notin {"infinite_loops", "excessive_iterations",
                    "suspicious_strings"}

\* the other conditions under which a script is to be accepted
WellFormed(script) ==
  /\ Len(script) <= 50000
  /\ ProperlyNested(script)
  /\ Cardinality(CodeLines(SplitNl(script))) >= 3
  /\ 10 * Cardinality(CommentLinesOf(SplitNl(script)))
       <= 8 * Cardinality(NonEmptyLines(SplitNl(script)))
  /\ CountMatches(FunctionPattern, script) <= 50
  /\ CountMatches(LocalPattern, script) <= 100
  /\ NoBadToken(script)

\* validate_script rejects a script with a dangerous pattern in any letter
\* case; os.execute("rm -rf /") is rejected for a system_access pattern, and
\* its report lists a system_access issue and has not passed
C18Rejects ==
  /\ vResult.op = "validate_script"
       => /\ Hits(DangerousPatterns, vScript) # {} => ~vResult.returned
          /\ vScript = OsExecuteScript
               => /\ vResult.failed = "security"
                  /\ vResult.category = "system_access"
  /\ (vReport.op = "get_validation_report" /\ vScript = OsExecuteScript)
       => /\ \E issue \in vReport.issues : issue[1] = "system_access"
          /\ ~vReport.validation_passed

\* C18 as stated: validate_script rejects every script with a dangerous
\* pattern, and accepts every script of at least 10 characters that is well
\* formed.
C18_ValidatorGatesByLength ==
  /\ C18Rejects
  /\ (vResult.op = "validate_script" /\ Len(vScript) >= 10
        /\ WellFormed(vScript)) => vResult.returned

\* C18, amended: validate_script rejects every script with a dangerous
\* pattern, and accepts every script that has at least 10 characters once the
\* white space at its two ends is taken off and is well formed.
C18_ValidatorGates ==
  /\ C18Rejects
  /\ (vResult.op = "validate_script" /\ Len(Trim(vScript)) >= 10
        /\ WellFormed(vScript)) => vResult.returned

\* the three-line example was accepted and its report has passed
C18_Witness ==
  /\ vScript = CleanExample
  /\ vResult.op = "validate_script" /\ vResult.returned
  /\ vReport.op = "get_validation_report" /\ vReport.validation_passed

\* C19: the checks of the builder and of the validator give the same answer
\* on every text, and the answer is true exactly when the delimiters of the
\* text are properly nested; print(1, (2+3)) is balanced and print(1, (2+3)
\* is not.
C19_BalancedChecksAgree ==
  /\ dBuilder.asked => (dBuilder.answer <=> ProperlyNested(dText))
  /\ dValidator.asked
       => /\ dValidator.answer <=> ProperlyNested(dText)
          /\ dValidator.answer <=> dBuilder.answer
          /\ dText = BalancedExample => dValidator.answer
          /\ dText = UnbalancedExample => ~dValidator.answer

\* both checks were asked about a text whose delimiters are matched in number
\* but crossed
C19_Witness ==
  /\ dText = << "(", "[", ")", "]" >>
  /\ dBuilder.asked /\ dValidator.asked
  /\ ~dValidator.answer

\* the lines of ResponseLines that are Lua code
LuaOnlyLines ==
  { << "p", "r", "i", "n", "t", "(", "\"", "x", "\"", ")" >>,
    << " ", " ", " ", " ", "p", "r", "i", "n", "t", "(", "x", ")" >>,
    << "x", " ", "=", " ", "1" >>,
    << "i", "f", " ", "x", " ", "t", "h", "e", "n" >>,
    << "e", "n", "d" >> }

\* a response without fence, backtick or marker that is Lua code only
BareCode(response) ==
  \A k \in 1..Len(SplitNl(response)) : SplitNl(response)[k] \in LuaOnlyLines

FencedExample ==
  << Backtick, Backtick, Backtick, "l", "u", "a", "\n", "p", "r", "i", "n",
     "t", "(", "\"", "x", "\"", ")", "\n", Backtick, Backtick, Backtick >>

PrintX == << "p", "r", "i", "n", "t", "(", "\"", "x", "\"", ")" >>

\* C20: on a response that is bare Lua code both extractors return the
\* trimmed response unchanged; on the fence around print("x") they return
\* print("x"); and each extractor returns its own result unchanged.
C20_ExtractionExact ==
  /\ xBuilder.done
       => /\ BareCode(xResponse) => xBuilder.text = Trim(xResponse)
          /\ xResponse = FencedExample => xBuilder.text = PrintX
  /\ xLight.done
       => /\ BareCode(xResponse) => xLight.text = Trim(xResponse)
          /\ xResponse = FencedExample => xLight.text = PrintX
  /\ xBuilderAgain.done => xBuilderAgain.text = xBuilder.text
  /\ xLightAgain.done => xLightAgain.text = xLight.text

\* data is the nonce drawn, a tag of 16 bytes and as many bytes as the
\* plaintext has, and decryption takes it apart at 16 and 32
Emitted16_16(data, plaintext) ==
  /\ Len(data) = 32 + Len(plaintext)
  /\ SubSeq(data, 1, 16) = crNonce
  /\ Unpack(data) = [nonce |-> SubSeq(data, 1, 16),
                     tag |-> SubSeq(data, 17, 32),
                     ciphertext |-> SubSeq(data, 33, Len(data))]

\* C21: once get_key has written the key file every get_key returns the key
\* in it; encrypt_file and encrypt_string emit the 16 bytes of the nonce, the
\* 16 bytes of the tag and the ciphertext, in this order, and decryption
\* splits at these offsets; decrypt_file of what encrypt_file wrote writes the
\* content of the source file again, and decrypt_string of what
\* encrypt_string returned returns the text again
C21_EncryptionRoundTrip ==
  /\ Cardinality(crKeys) <= 1
  /\ crKeyFile.exists => Len(crKeyFile.data) = 32 /\ crKeys = {crKeyFile.data}
  /\ (crpc = "encrypted" /\ ~crTampered)
       => Emitted16_16(crFiles[crEncPath], crSource.content)
  /\ (crpc = "decrypted" /\ ~crTampered)
       => /\ ~crRaised
          /\ crOutPath \in DOMAIN crFiles
          /\ crFiles[crOutPath] = crSource.content
  /\ crpc = "sealed" => Emitted16_16(B64Decode(crToken), Utf8Encode(crText))
  /\ crpc = "opened" => ~crRaised /\ crBack = crText

\* a file of two bytes came back under another name than the source's, with
\* the key read from the key file by the decryption
C21_Witness ==
  /\ crpc = "decrypted" /\ ~crTampered /\ ~crRaised
  /\ Len(crSource.content) = 2
  /\ crOutPath # crSource.path
  /\ crFiles[crOutPath] = crSource.content
  /\ crFiles[crEncPath] # crSource.content
  /\ crKeyFile.exists

\* what the environment, the settings file and the built-in defaults, in
\* this order of precedence, give for a key
EnvironmentFirst(k) ==
  IF EnvNameOf[k] \in DOMAIN lcEnviron
    THEN IF k \in IntKeys THEN IntOf(lcEnviron[EnvNameOf[k]])
         ELSE lcEnviron[EnvNameOf[k]]
  ELSE IF lcFile.exists /\ k \in DOMAIN lcFile.data THEN lcFile.data[k]
  ELSE IF k \in IntKeys THEN IntOf(EnvDefault[k])
  ELSE EnvDefault[k]

\* C22: get_config returns, for each of the five keys an environment
\* variable can set, the variable's value when it is set, else the settings
\* file's value when the file gives one, else the built-in default
C22_EnvironmentWins ==
  lcpc = "got" => \A k \in OverridableKeys : lcConfig[k] = EnvironmentFirst(k)

\* the failures of a command, told from the command line and from what the
\* validator and the executor do
BadArguments(args) ==
  \/ args.unknownOption
  \/ Cardinality(args.actions) > 1
  \/ args.actions \cap {"execute", "validate"} # {} /\ args.script = "not given"

FileNotFound(args) ==
  /\ ~BadArguments(args)
  /\ args.actions \cap {"execute", "validate"} # {}
  /\ args.script = "no such file"

ValidationFailure(args, world) ==
  /\ ~BadArguments(args)
  /\ args.actions = {"validate"} /\ args.script = "a file" /\ ~world.valid

ExecutionFailure(args, world) ==
  /\ ~BadArguments(args)
  /\ args.actions = {"execute"} /\ args.script = "a file" /\ ~world.executes

\* C23: a process that ended after bad arguments, a script file that does not
\* exist, a validation failure or an execution failure has a non-zero exit
\* status and has logged the error
C23_ExitStatusTellsFailure ==
  (/\ cliPc = "exited"
   /\ \/ BadArguments(cliArgs)
      \/ FileNotFound(cliArgs)
      \/ ValidationFailure(cliArgs, cliWorld)
      \/ ExecutionFailure(cliArgs, cliWorld))
    => cliExit # 0 /\ cliErrors > 0

\* C24: an execution started from the interface leads to the notification
\* of the interface thread and to the Execute button enabled and the Stop
\* button disabled, unless the operator presses Stop first
C24_InterfaceRestored ==
  (stop_btn /\ gwPc = "started")
    ~> ((guiNotified /\ execute_btn /\ ~stop_btn) \/ guiStopped)

\* C25: when the script is at its next statement every function it has
\* handed to spawn has run to its end or to its error, every statement ran on
\* the thread of the script and none after the script had ended, and no
\* error of such a function reached the script
C25_SpawnRunsInline ==
  /\ \A t \in 1..Len(spThreads) : ~ThreadRunning(t)
  /\ \A i \in 1..Len(spTrace) :
       spTrace[i].thread = MainThread /\ ~spTrace[i].afterEnd
  /\ ~spRaised

\* C26: with one ExecutionLogger, when a logging operation has returned the
\* live file of the category it wrote to is not above max_log_size
C26_RotationOnEveryOperation ==
  \A t \in LogThreads :
    (loggers = 1 /\ gpc[t] = "done" /\ dir[Cat(t)][0] # NoFile)
      => files[Cat(t)][dir[Cat(t)][0]].bytes <= max_log_size

\* C27: retry_operation calls operation at most max_retries + 1 times and
\* not again after a call that returned, whose result it returns; it has
\* slept delay * 2^k after failed attempt k and before the next attempt and
\* at no other time, so not after the last attempt; and when every attempt
\* has failed it raises the exception of the last attempt
C27_RetryBackoff ==
  /\ Len(ryCalls) <= ryMax + 1
  /\ \A i \in 1..(Len(ryCalls) - 1) : IsException(ryCalls[i])
  /\ \A k \in 1..Len(rySleeps) : rySleeps[k] = ryDelay * 2 ^ (k - 1)
  /\ ryCalls # << >>
       => Len(rySleeps) \in {Len(ryCalls) - 1, Len(ryCalls)}
  /\ (ryCalls # << >> /\ Len(rySleeps) = Len(ryCalls))
       => /\ ryPc = "loop"
          /\ Len(ryCalls) <= ryMax
          /\ IsException(ryCalls[Len(ryCalls)])
  /\ (ryPc = "over" /\ ryCalls # << >>)
       => /\ ryOut.of = Len(ryCalls)
          /\ ryOut.kind =
               IF ryCalls[Len(ryCalls)] = "returns" THEN "returned"
               ELSE "raised"
          /\ IsException(ryCalls[Len(ryCalls)]) => Len(ryCalls) = ryMax + 1

\* every one of three attempts failed: two sleeps of delay and twice delay,
\* and the exception of the third attempt raised
C27_Witness ==
  /\ ryPc = "over" /\ ryMax = 2 /\ ryDelay = 3
  /\ ryCalls = << "raises OSError", "raises OSError", "raises ValueError" >>
  /\ rySleeps = << 3, 6 >>
  /\ ryOut = [kind |-> "raised", of |-> 3]

\* C28: set and update calls leave the built-in default table as it was
\* when the Config object was made, and after reset_to_defaults get returns,
\* for every key, the value the key has in that table
C28_ResetRestoresDefaults ==
  /\ cfDefault = BuiltInDefaults
  /\ cfPc = "reset"
       => \A g \in ConfigGroups : \A k \in DOMAIN BuiltInDefaults[g] :
            ConfigGet(g, k) = BuiltInDefaults[g][k]

\* C29: successes and failures together never exceed the executions
\* counted; when no execute_script call is in progress they equal them, the
\* successes are the calls that returned, the failures the calls that
\* raised, and total_execution_time is the seconds of the calls that
\* returned, so that a failed call adds nothing to it
C29_StatsConsistent ==
  /\ stStats.successful_executions + stStats.failed_executions
       <= stStats.total_executions
  /\ (\A t \in StatThreads : stPc[t] = "idle")
       => /\ stStats.successful_executions + stStats.failed_executions
               = stStats.total_executions
          /\ stStats.successful_executions = stFinished.returned
          /\ stStats.failed_executions = stFinished.raised
          /\ stStats.total_execution_time = stFinished.seconds

\* the lines the script of an execute call can put out itself: one for each
\* print on a Lua runtime, the one line of its execution on the mock runtime
OwnLines(script) ==
  IF sbRuntime = "mock"
    THEN 1
    ELSE Cardinality({i \in 1..Len(script) : script[i] = "print"})

\* C30: the output buffer of a Sandbox.execute call in progress, and the
\* output of the SandboxResult it returns, hold no more lines than the
\* script of that call puts out, whatever threads earlier calls left
\* behind; and is_running is False whenever no call is in progress
C30_OutputIsOwn ==
  /\ spc # "idle" => Len(output_buffer) <= OwnLines(sscript)
  /\ (spc = "idle" /\ sresult # NoResult)
       => Len(sresult.output) <= OwnLines(sscript)
  /\ spc = "idle" => ~sb_is_running

====
